---------------------------- MODULE Spec2Model ----------------------------
(***************************************************************************)
(* Model of the range parser of cutr (ch08_cut).  The repository holds two *)
(* implementations of parse_pos:                                           *)
(*   - src/ch08_cut/cutr/src/mylib_2.rs : regex + parse_index              *)
(*   - src/ch08_cut/cutr/src/mylib.rs   : convert_to_list/validate_element *)
(* Both are modelled, character by character, on the same input string.    *)
(*                                                                         *)
(* A string is a sequence of one-character strings.  A Result is a record  *)
(* [tag, val, err]: tag "Ok" carries val, tag "Err" carries err.  An error *)
(* message is [fmt, args]: the format string of the format! call and the   *)
(* rendered arguments that fill its {} holes, in order.                    *)
(***************************************************************************)
EXTENDS Integers, Sequences, FiniteSets, TLC

\* Longest range specification drawn as input.
MaxLen == 5
\* Longest range specification with a digit outside ASCII drawn as input.
MaxUnicodeLen == 3
\* Largest decimal digit of the input alphabet ("0" .. MaxDigit).
MaxDigit == 3

\* The digits of str::parse: the ten ASCII digits.
DigitChars == <<"0", "1", "2", "3", "4", "5", "6", "7", "8", "9">>

IsDigit(c) == \E i \in 1..10 : DigitChars[i] = c

\* U+0663 ARABIC-INDIC DIGIT THREE: a digit for \d, not for str::parse.
ArabicThree == "U+0663"

\* \d of the regex crate: any Unicode decimal digit.
IsUnicodeDigit(c) == IsDigit(c) \/ c = ArabicThree

DigitVal(c) == (CHOOSE i \in 1..10 : DigitChars[i] = c) - 1

Alphabet == {DigitChars[i + 1] : i \in 0..MaxDigit} \cup {",", "-", "+", "a"}

\* The range specifications drawn as input: every string up to MaxLen over
\* the alphabet, and every string up to MaxUnicodeLen that holds the digit
\* outside ASCII.
Strings ==
    UNION {[1..n -> Alphabet] : n \in 0..MaxLen}
    \cup {s \in UNION {[1..n -> Alphabet \cup {ArabicThree}] : n \in 1..MaxUnicodeLen} :
              \E i \in 1..Len(s) : s[i] = ArabicThree}

-----------------------------------------------------------------------------
(* Results and error messages *)

NotCalled == [tag |-> "NotCalled", val |-> <<>>, err |-> [fmt |-> "", args |-> <<>>]]

Ok(v) == [tag |-> "Ok", val |-> v, err |-> [fmt |-> "", args |-> <<>>]]

Err(e) == [tag |-> "Err", val |-> <<>>, err |-> e]

\* format!("illegal list value: \"{}\"", input)
IllegalListValue(input) == [fmt |-> "illegal list value: \"{}\"", args |-> <<input>>]

\* format!("First number in range ({}) must be lower than second number ({})", a, b)
FirstNumberMsg(a, b) ==
    [fmt |-> "First number in range ({}) must be lower than second number ({})",
     args |-> <<a, b>>]

RangeEmptyMsg == [fmt |-> "Range cannot be empty!", args |-> <<>>]

TooManyMsg == [fmt |-> "Too many list elements", args |-> <<>>]

\* A half-open Range<usize>.
Range(s, e) == [start |-> s, end |-> e]

-----------------------------------------------------------------------------
(* Library functions of str and usize, as the code uses them *)

Contains(s, c) == \E i \in 1..Len(s) : s[i] = c

StartsWith(s, c) == Len(s) > 0 /\ s[1] = c

FirstIndex(s, c) == CHOOSE i \in 1..Len(s) : s[i] = c /\ \A j \in 1..(i - 1) : s[j] # c

\* str::split(sep): the pieces between the separators, empty pieces kept.
RECURSIVE Split(_, _)
Split(s, sep) ==
    IF ~Contains(s, sep) THEN <<s>>
    ELSE LET i == FirstIndex(s, sep)
         IN  <<SubSeq(s, 1, i - 1)>> \o Split(SubSeq(s, i + 1, Len(s)), sep)

AllDigits(s) == \A i \in 1..Len(s) : IsDigit(s[i])

AllUnicodeDigits(s) == \A i \in 1..Len(s) : IsUnicodeDigit(s[i])

RECURSIVE StripZeros(_)
StripZeros(s) == IF Len(s) > 0 /\ s[1] = "0" THEN StripZeros(Tail(s)) ELSE s

\* The decimal digits of usize::MAX = 2^64 - 1.
UsizeMaxDigits ==
    <<"1", "8", "4", "4", "6", "7", "4", "4", "0", "7",
      "3", "7", "0", "9", "5", "5", "1", "6", "1", "5">>

\* s <= t for two digit strings of the same length.
RECURSIVE DigitsLeq(_, _)
DigitsLeq(s, t) ==
    IF Len(s) = 0 THEN TRUE
    ELSE IF DigitVal(s[1]) < DigitVal(t[1]) THEN TRUE
    ELSE IF DigitVal(s[1]) > DigitVal(t[1]) THEN FALSE
    ELSE DigitsLeq(Tail(s), Tail(t))

\* The digit string denotes a number that fits in usize.
FitsUsize(digits) ==
    LET d == StripZeros(digits)
    IN  \/ Len(d) < Len(UsizeMaxDigits)
        \/ Len(d) = Len(UsizeMaxDigits) /\ DigitsLeq(d, UsizeMaxDigits)

RECURSIVE DecValue(_)
DecValue(digits) ==
    IF Len(digits) = 0 THEN 0
    ELSE 10 * DecValue(SubSeq(digits, 1, Len(digits) - 1)) + DigitVal(digits[Len(digits)])

\* str::parse::<usize>(): an optional '+', then one or more decimal digits
\* whose value fits in usize.
ParseUsize(s) ==
    LET body == IF StartsWith(s, "+") THEN Tail(s) ELSE s
    IN  IF Len(body) > 0 /\ AllDigits(body) /\ FitsUsize(body)
        THEN [ok |-> TRUE, n |-> DecValue(body)]
        ELSE [ok |-> FALSE, n |-> 0]

\* str::parse::<NonZeroUsize>(): as usize, and zero is an error.
ParseNonZeroUsize(s) ==
    LET r == ParseUsize(s)
    IN  IF r.ok /\ r.n # 0 THEN r ELSE [ok |-> FALSE, n |-> 0]

\* Display of a usize: decimal, no sign, no leading zeros.
RECURSIVE ToDec(_)
ToDec(n) ==
    IF n < 10 THEN <<DigitChars[n + 1]>>
    ELSE ToDec(n \div 10) \o <<DigitChars[(n % 10) + 1]>>

-----------------------------------------------------------------------------
(* mylib_2.rs *)

\* Mutant of parse_index: the 1-indexed number is returned as it is.
parse_index_one_based(input) ==
    IF StartsWith(input, "+") THEN Err(IllegalListValue(input))
    ELSE LET r == ParseNonZeroUsize(input)
         IN  IF r.ok THEN Ok(r.n) ELSE Err(IllegalListValue(input))

\* Mutant of parse_index: a leading '+' is left to usize parsing, which takes it.
parse_index_plus_sign(input) ==
    LET r == ParseNonZeroUsize(input)
    IN  IF r.ok THEN Ok(r.n - 1) ELSE Err(IllegalListValue(input))

\* Mutant of parse_index: a number written with a leading zero is refused.
parse_index_no_leading_zero(input) ==
    IF StartsWith(input, "+") \/ StartsWith(input, "0")
    THEN Err(IllegalListValue(input))
    ELSE LET r == ParseNonZeroUsize(input)
         IN  IF r.ok THEN Ok(r.n - 1) ELSE Err(IllegalListValue(input))

\* parse_index: Ok(n - 1) for a '+'-less non-zero usize, else the error
\* naming the whole input.
parse_index(input) ==
    IF StartsWith(input, "+") THEN Err(IllegalListValue(input))
    ELSE LET r == ParseNonZeroUsize(input)
         IN  IF r.ok THEN Ok(r.n - 1) ELSE Err(IllegalListValue(input))

\* Regex ^(\d+)-(\d+)$ : Unicode decimal digits, one dash, Unicode decimal
\* digits.
RangeReMatches(val) ==
    /\ Contains(val, "-")
    /\ LET i == FirstIndex(val, "-")
       IN  /\ i > 1
           /\ i < Len(val)
           /\ AllUnicodeDigits(SubSeq(val, 1, i - 1))
           /\ AllUnicodeDigits(SubSeq(val, i + 1, Len(val)))

RangeReCaptures(val) ==
    LET i == FirstIndex(val, "-")
    IN  <<SubSeq(val, 1, i - 1), SubSeq(val, i + 1, Len(val))>>

\* Mutant of the closure: the end of a range is not made exclusive.
parse_pos_val_short(val) ==
    LET single == parse_index(val)
    IN  IF single.tag = "Ok" THEN Ok(Range(single.val, single.val + 1))
        ELSE IF ~RangeReMatches(val) THEN Err(single.err)
        ELSE LET captures == RangeReCaptures(val)
                 r1 == parse_index(captures[1])
                 r2 == parse_index(captures[2])
             IN  IF r1.tag = "Err" THEN Err(r1.err)
                 ELSE IF r2.tag = "Err" THEN Err(r2.err)
                 ELSE IF r1.val >= r2.val
                      THEN Err(FirstNumberMsg(ToDec(r1.val + 1), ToDec(r2.val + 1)))
                      ELSE Ok(Range(r1.val, r2.val))

\* Mutant of the closure: the message shows the internal 0-indexed numbers.
parse_pos_val_zero_indexed(val) ==
    LET single == parse_index(val)
    IN  IF single.tag = "Ok" THEN Ok(Range(single.val, single.val + 1))
        ELSE IF ~RangeReMatches(val) THEN Err(single.err)
        ELSE LET captures == RangeReCaptures(val)
                 r1 == parse_index(captures[1])
                 r2 == parse_index(captures[2])
             IN  IF r1.tag = "Err" THEN Err(r1.err)
                 ELSE IF r2.tag = "Err" THEN Err(r2.err)
                 ELSE IF r1.val >= r2.val
                      THEN Err(FirstNumberMsg(ToDec(r1.val), ToDec(r2.val)))
                      ELSE Ok(Range(r1.val, r2.val + 1))

\* Mutant of the closure: an error of a side of a range names the whole token.
parse_pos_val_whole_token(val) ==
    LET single == parse_index(val)
    IN  IF single.tag = "Ok" THEN Ok(Range(single.val, single.val + 1))
        ELSE IF ~RangeReMatches(val) THEN Err(single.err)
        ELSE LET captures == RangeReCaptures(val)
                 r1 == parse_index(captures[1])
                 r2 == parse_index(captures[2])
             IN  IF r1.tag = "Err" \/ r2.tag = "Err" THEN Err(single.err)
                 ELSE IF r1.val >= r2.val
                      THEN Err(FirstNumberMsg(ToDec(r1.val + 1), ToDec(r2.val + 1)))
                      ELSE Ok(Range(r1.val, r2.val + 1))

\* Mutant of the closure: the two numbers of a range are not compared.
parse_pos_val_no_order_check(val) ==
    LET single == parse_index(val)
    IN  IF single.tag = "Ok" THEN Ok(Range(single.val, single.val + 1))
        ELSE IF ~RangeReMatches(val) THEN Err(single.err)
        ELSE LET captures == RangeReCaptures(val)
                 r1 == parse_index(captures[1])
                 r2 == parse_index(captures[2])
             IN  IF r1.tag = "Err" THEN Err(r1.err)
                 ELSE IF r2.tag = "Err" THEN Err(r2.err)
                 ELSE Ok(Range(r1.val, r2.val + 1))

\* The closure parse_pos maps over the tokens.
parse_pos_val(val) ==
    LET single == parse_index(val)
    IN  IF single.tag = "Ok" THEN Ok(Range(single.val, single.val + 1))
        ELSE IF ~RangeReMatches(val) THEN Err(single.err)
        ELSE LET captures == RangeReCaptures(val)
                 r1 == parse_index(captures[1])
                 r2 == parse_index(captures[2])
             IN  IF r1.tag = "Err" THEN Err(r1.err)
                 ELSE IF r2.tag = "Err" THEN Err(r2.err)
                 ELSE IF r1.val >= r2.val
                      THEN Err(FirstNumberMsg(ToDec(r1.val + 1), ToDec(r2.val + 1)))
                      ELSE Ok(Range(r1.val, r2.val + 1))

\* Mutant of collect: every token is parsed and the last error is kept.
RECURSIVE CollectResultsLastError(_)
CollectResultsLastError(rs) ==
    IF Len(rs) = 0 THEN Ok(<<>>)
    ELSE LET rest == CollectResultsLastError(Tail(rs))
         IN  IF rest.tag = "Err" THEN rest
             ELSE IF rs[1].tag = "Err" THEN rs[1]
             ELSE Ok(<<rs[1].val>> \o rest.val)

\* collect::<Result<Vec<_>, _>>(): the values in order, or the first error.
RECURSIVE CollectResults(_)
CollectResults(rs) ==
    IF Len(rs) = 0 THEN Ok(<<>>)
    ELSE IF rs[1].tag = "Err" THEN rs[1]
    ELSE LET rest == CollectResults(Tail(rs))
         IN  IF rest.tag = "Err" THEN rest ELSE Ok(<<rs[1].val>> \o rest.val)

\* A sequence without its repeated elements, first occurrences kept.
RECURSIVE Dedup(_)
Dedup(seq) ==
    IF Len(seq) = 0 THEN <<>>
    ELSE LET front == SubSeq(seq, 1, Len(seq) - 1)
             last == seq[Len(seq)]
         IN  IF \E i \in 1..Len(front) : front[i] = last
             THEN Dedup(front)
             ELSE Dedup(front) \o <<last>>

\* Mutant of parse_pos: repeated intervals are dropped from the list.
parse_pos_dedup(range) ==
    LET toks == Split(range, ",")
        r == CollectResults([i \in 1..Len(toks) |-> parse_pos_val(toks[i])])
    IN  IF r.tag = "Ok" THEN Ok(Dedup(r.val)) ELSE r

parse_pos(range) ==
    LET toks == Split(range, ",")
    IN  CollectResults([i \in 1..Len(toks) |-> parse_pos_val(toks[i])])

-----------------------------------------------------------------------------
(* mylib.rs *)

\* Mutant of validate_element: a '+' is left to usize parsing, which takes
\* it as a sign.
validate_element_plus_sign(v) ==
    LET r == ParseUsize(v)
    IN  IF r.ok THEN Ok(r.n) ELSE Err(IllegalListValue(v))

validate_element(v) ==
    IF Contains(v, "+") THEN Err(IllegalListValue(v))
    ELSE LET r == ParseUsize(v)
         IN  IF r.ok THEN Ok(r.n) ELSE Err(IllegalListValue(v))

\* Mutant of convert_to_list: the third element is not looked for.
convert_to_list_two_elements(v) ==
    LET nums == Split(v, "-")
        start == validate_element(nums[1])
        end == validate_element(nums[2])
    IN  IF (start.tag = "Ok" /\ start.val = 0) \/ (end.tag = "Ok" /\ end.val = 0)
             THEN Err(IllegalListValue(<<"0">>))
        ELSE IF start.tag = "Ok" /\ end.tag = "Ok"
             THEN IF start.val < end.val
                  THEN Ok(Range(start.val - 1, end.val))
                  ELSE Err(FirstNumberMsg(ToDec(start.val), ToDec(end.val)))
        ELSE Err(IllegalListValue(v))

convert_to_list(v) ==
    LET nums == Split(v, "-")
        start == validate_element(nums[1])
        end == validate_element(nums[2])
    IN  IF Len(nums) > 2 THEN Err(TooManyMsg)
        ELSE IF (start.tag = "Ok" /\ start.val = 0) \/ (end.tag = "Ok" /\ end.val = 0)
             THEN Err(IllegalListValue(<<"0">>))
        ELSE IF start.tag = "Ok" /\ end.tag = "Ok"
             THEN IF start.val < end.val
                  THEN Ok(Range(start.val - 1, end.val))
                  ELSE Err(FirstNumberMsg(ToDec(start.val), ToDec(end.val)))
        ELSE Err(IllegalListValue(v))

\* The closure parse_pos of mylib.rs maps over the tokens.
parse_pos_part(part) ==
    IF Contains(part, "-") THEN convert_to_list(part)
    ELSE LET n == validate_element(part)
         IN  IF n.tag = "Ok"
             THEN IF n.val = 0 THEN Err(IllegalListValue(<<"0">>))
                  ELSE Ok(Range(n.val - 1, n.val))
             ELSE n

\* Mutant of parse_pos of mylib.rs: the empty specification is not singled out.
parse_pos_mylib_no_empty_check(range) ==
    LET toks == Split(range, ",")
    IN  CollectResults([i \in 1..Len(toks) |-> parse_pos_part(toks[i])])

parse_pos_mylib(range) ==
    IF Len(range) = 0 THEN Err(RangeEmptyMsg)
    ELSE LET toks == Split(range, ",")
         IN  CollectResults([i \in 1..Len(toks) |-> parse_pos_part(toks[i])])

-----------------------------------------------------------------------------
(* mylib_2.rs: the three extractors.  A line (&str) is a sequence of chars, *)
(* each char its Unicode code point; its bytes are its UTF-8 encoding.      *)

\* Longest line, in chars, and longest record, in fields.
MaxLineLen == 3
\* Largest start and end of an interval handed to an extractor.
MaxPos == 2
\* Longest PositionList handed to an extractor.
MaxRanges == 2

\* U+FFFD REPLACEMENT CHARACTER, what from_utf8_lossy puts for invalid bytes.
ReplacementChar == 65533

Min(a, b) == IF a < b THEN a ELSE b

\* The UTF-8 encoding of one char.
EncodeChar(cp) ==
    IF cp < 128 THEN <<cp>>
    ELSE IF cp < 2048 THEN <<192 + (cp \div 64), 128 + (cp % 64)>>
    ELSE IF cp < 65536
         THEN <<224 + (cp \div 4096), 128 + ((cp \div 64) % 64), 128 + (cp % 64)>>
    ELSE <<240 + (cp \div 262144), 128 + ((cp \div 4096) % 64),
           128 + ((cp \div 64) % 64), 128 + (cp % 64)>>

\* str::as_bytes
RECURSIVE AsBytes(_)
AsBytes(line) ==
    IF Len(line) = 0 THEN <<>> ELSE EncodeChar(line[1]) \o AsBytes(Tail(line))

\* The byte at 1-based index i, or 0 past the end (safe_get of the decoder).
SafeGet(bytes, i) == IF i <= Len(bytes) THEN bytes[i] ELSE 0

IsCont(b) == b >= 128 /\ b <= 191

\* utf8_char_width of a lead byte; 0 for a byte that cannot start a char.
Utf8CharWidth(b) ==
    IF b < 128 THEN 1
    ELSE IF b >= 194 /\ b <= 223 THEN 2
    ELSE IF b >= 224 /\ b <= 239 THEN 3
    ELSE IF b >= 240 /\ b <= 244 THEN 4
    ELSE 0

\* The second byte a 3-byte or 4-byte lead admits.
SecondOk(b, b2) ==
    \/ b = 224 /\ b2 >= 160 /\ b2 <= 191
    \/ b >= 225 /\ b <= 236 /\ IsCont(b2)
    \/ b = 237 /\ b2 >= 128 /\ b2 <= 159
    \/ b >= 238 /\ b <= 239 /\ IsCont(b2)
    \/ b = 240 /\ b2 >= 144 /\ b2 <= 191
    \/ b >= 241 /\ b <= 243 /\ IsCont(b2)
    \/ b = 244 /\ b2 >= 128 /\ b2 <= 143

\* The first chunk of a byte sequence: the char it decodes to and the bytes
\* it takes; an invalid chunk takes the longest prefix of a char it holds.
FirstChunk(bytes) ==
    LET b == bytes[1]
        b2 == SafeGet(bytes, 2)
        b3 == SafeGet(bytes, 3)
        b4 == SafeGet(bytes, 4)
        w == Utf8CharWidth(b)
        bad(n) == [char |-> ReplacementChar, len |-> n]
    IN  IF w = 1 THEN [char |-> b, len |-> 1]
        ELSE IF w = 2
             THEN IF IsCont(b2)
                  THEN [char |-> (b - 192) * 64 + (b2 - 128), len |-> 2]
                  ELSE bad(1)
        ELSE IF w = 3
             THEN IF ~SecondOk(b, b2) THEN bad(1)
                  ELSE IF ~IsCont(b3) THEN bad(2)
                  ELSE [char |-> (b - 224) * 4096 + (b2 - 128) * 64 + (b3 - 128),
                        len |-> 3]
        ELSE IF w = 4
             THEN IF ~SecondOk(b, b2) THEN bad(1)
                  ELSE IF ~IsCont(b3) THEN bad(2)
                  ELSE IF ~IsCont(b4) THEN bad(3)
                  ELSE [char |-> (b - 240) * 262144 + (b2 - 128) * 4096
                                 + (b3 - 128) * 64 + (b4 - 128),
                        len |-> 4]
        ELSE bad(1)

\* String::from_utf8_lossy
RECURSIVE FromUtf8Lossy(_)
FromUtf8Lossy(bytes) ==
    IF Len(bytes) = 0 THEN <<>>
    ELSE LET c == FirstChunk(bytes)
         IN  <<c.char>> \o FromUtf8Lossy(SubSeq(bytes, c.len + 1, Len(bytes)))

\* Iterator::skip(n) and Iterator::take(n) on a sequence.
Skip(s, n) == SubSeq(s, n + 1, Len(s))

Take(s, n) == SubSeq(s, 1, Min(n, Len(s)))

\* usize::saturating_sub
SaturatingSub(a, b) == IF a > b THEN a - b ELSE 0

\* slice::get(range).unwrap_or(&[]): the sub-slice when start <= end <= len,
\* nothing otherwise.
SliceGet(bytes, r) ==
    IF r.start > r.end \/ r.end > Len(bytes) THEN <<>>
    ELSE SubSeq(bytes, r.start + 1, r.end)

\* Mutant of SliceGet: the range is clipped to the slice.
SliceGetClipped(bytes, r) == SubSeq(bytes, r.start + 1, Min(r.end, Len(bytes)))

\* The chars one interval selects: skip(start).take(end.saturating_sub(start)).
CharsOf(line, r) == Take(Skip(line, r.start), SaturatingSub(r.end, r.start))

\* Mutant of extract_chars: the chars covered by some interval, in line order.
extract_chars_line_order(line, char_pos) ==
    LET covered(k) == \E i \in 1..Len(char_pos) :
                          char_pos[i].start <= k - 1 /\ k - 1 < char_pos[i].end
        RECURSIVE pick(_)
        pick(k) == IF k > Len(line) THEN <<>>
                   ELSE (IF covered(k) THEN <<line[k]>> ELSE <<>>) \o pick(k + 1)
    IN  pick(1)

\* Mutant of extract_chars: the intervals index the bytes of the line.
RECURSIVE extract_chars_byte_index(_, _)
extract_chars_byte_index(line, char_pos) ==
    IF Len(char_pos) = 0 THEN <<>>
    ELSE FromUtf8Lossy(SliceGetClipped(AsBytes(line), char_pos[1]))
         \o extract_chars_byte_index(line, Tail(char_pos))

RECURSIVE extract_chars(_, _)
extract_chars(line, char_pos) ==
    IF Len(char_pos) = 0 THEN <<>>
    ELSE CharsOf(line, char_pos[1]) \o extract_chars(line, Tail(char_pos))

\* The bytes the intervals select, slice after slice.
RECURSIVE SelectedBytes(_, _)
SelectedBytes(bytes, byte_pos) ==
    IF Len(byte_pos) = 0 THEN <<>>
    ELSE SliceGet(bytes, byte_pos[1]) \o SelectedBytes(bytes, Tail(byte_pos))

\* Mutant of extract_bytes: every slice is decoded on its own.
RECURSIVE extract_bytes_decode_each(_, _)
extract_bytes_decode_each(line, byte_pos) ==
    IF Len(byte_pos) = 0 THEN <<>>
    ELSE FromUtf8Lossy(SliceGet(AsBytes(line), byte_pos[1]))
         \o extract_bytes_decode_each(line, Tail(byte_pos))

extract_bytes(line, byte_pos) == FromUtf8Lossy(SelectedBytes(AsBytes(line), byte_pos))

\* The fields of the record whose zero-based index the interval contains,
\* from the field at 1-based position k on.
RECURSIVE FieldsOf(_, _, _)
FieldsOf(record, r, k) ==
    IF k > Len(record) THEN <<>>
    ELSE (IF r.start <= k - 1 /\ k - 1 < r.end THEN <<record[k]>> ELSE <<>>)
         \o FieldsOf(record, r, k + 1)

\* Mutant of extract_fields: a field already selected is not selected again.
RECURSIVE extract_fields_once(_, _)
extract_fields_once(record, field_pos) ==
    IF Len(field_pos) = 0 THEN <<>>
    ELSE LET front == extract_fields_once(record, SubSeq(field_pos, 1, Len(field_pos) - 1))
             more == FieldsOf(record, field_pos[Len(field_pos)], 1)
         IN  front \o SelectSeq(more, LAMBDA f : \A i \in 1..Len(front) : front[i] # f)

RECURSIVE extract_fields(_, _)
extract_fields(record, field_pos) ==
    IF Len(field_pos) = 0 THEN <<>>
    ELSE FieldsOf(record, field_pos[1], 1) \o extract_fields(record, Tail(field_pos))

-----------------------------------------------------------------------------
(* tailr: get_start_index of lib.rs and of mylib_2.rs.  A TakeValue is      *)
(* [kind, num]; an Option<u64> is [tag, val] with tag "Some" or "None".     *)

\* Largest number of lines (or bytes) of a file.
MaxTotal == 4
\* Largest magnitude of the number of a TakeNum.
MaxNum == 6

PlusZero == [kind |-> "PlusZero", num |-> 0]

TakeNum(n) == [kind |-> "TakeNum", num |-> n]

TakeValues == {PlusZero} \cup {TakeNum(n) : n \in (0 - MaxNum)..MaxNum}

NotComputed == [tag |-> "NotComputed", val |-> 0]

None == [tag |-> "None", val |-> 0]

Some(v) == [tag |-> "Some", val |-> v]

\* Mutant of get_start_index: a request for exactly total is refused too.
get_start_index_refuse_total(take_val, total) ==
    IF take_val.kind = "PlusZero"
    THEN IF total > 0 THEN Some(0) ELSE None
    ELSE LET num == take_val.num
         IN  IF num = 0 \/ total = 0 \/ num >= total THEN None
             ELSE LET start == IF num < 0 THEN total + num ELSE num - 1
                  IN  Some(IF start < 0 THEN 0 ELSE start)

\* lib.rs
get_start_index(take_val, total) ==
    IF take_val.kind = "PlusZero"
    THEN IF total > 0 THEN Some(0) ELSE None
    ELSE LET num == take_val.num
         IN  IF num = 0 \/ total = 0 \/ num > total THEN None
             ELSE LET start == IF num < 0 THEN total + num ELSE num - 1
                  IN  Some(IF start < 0 THEN 0 ELSE start)

\* mylib_2.rs
get_start_index_mylib_2(take_val, total) ==
    IF total <= 0 THEN None
    ELSE IF take_val.kind = "PlusZero" THEN Some(0)
    ELSE LET num == take_val.num
         IN  IF num > total \/ num = 0 THEN None
             ELSE IF num > 0 THEN Some(num - 1)
             ELSE LET answer == IF total + num < 0 THEN 0 ELSE total + num
                  IN  Some(answer)

-----------------------------------------------------------------------------
(* tailr: parse_num of lib.rs and of mylib_2.rs.  An i64 is kept as sign    *)
(* and magnitude, [neg, mag], mag its decimal digits without leading zeros, *)
(* so that the bounds of i64 are the real ones.                             *)

\* Longest short string handed to parse_num (the strings around the bounds
\* of i64 are drawn besides).
MaxNumLen == 3

\* The decimal digits of i64::MAX = 2^63 - 1.
I64MaxDigits ==
    <<"9", "2", "2", "3", "3", "7", "2", "0", "3", "6",
      "8", "5", "4", "7", "7", "5", "8", "0", "7">>

\* The decimal digits of the magnitude of i64::MIN = -2^63.
I64MinDigits ==
    <<"9", "2", "2", "3", "3", "7", "2", "0", "3", "6",
      "8", "5", "4", "7", "7", "5", "8", "0", "8">>

I64(neg, mag) == [neg |-> neg, mag |-> mag]

\* The digits of a number without its leading zeros; zero is "0".
Magnitude(digits) ==
    LET d == StripZeros(digits) IN IF d = <<>> THEN <<"0">> ELSE d

\* The digit string, with the sign, denotes a number that fits in i64.
FitsI64(neg, digits) ==
    LET d == StripZeros(digits)
        limit == IF neg THEN I64MinDigits ELSE I64MaxDigits
    IN  \/ Len(d) < Len(limit)
        \/ Len(d) = Len(limit) /\ DigitsLeq(d, limit)

\* str::parse::<i64>(): an optional '+' or '-', then one or more ASCII
\* digits whose signed value fits in i64.
ParseI64(s) ==
    LET neg == StartsWith(s, "-")
        body == IF StartsWith(s, "+") \/ neg THEN Tail(s) ELSE s
    IN  IF Len(body) > 0 /\ AllDigits(body) /\ FitsI64(neg, body)
        THEN [ok |-> TRUE,
              n |-> I64(neg /\ Magnitude(body) # <<"0">>, Magnitude(body))]
        ELSE [ok |-> FALSE, n |-> I64(FALSE, <<"0">>)]

NumNotCalled == [tag |-> "NotCalled"]

NumOk(v) == [tag |-> "Ok", val |-> v]

\* Err(From::from(val)): the message is the string itself.
NumErr(val) == [tag |-> "Err", err |-> val]

\* Regex ^([+-])?(\d+)$ matches val.
NumReMatches(val) ==
    LET body == IF StartsWith(val, "+") \/ StartsWith(val, "-") THEN Tail(val) ELSE val
    IN  Len(body) > 0 /\ \A i \in 1..Len(body) : IsUnicodeDigit(body[i])

\* The captures of NUM_RE on a matching val: the sign ("" when group 1 is
\* absent) and the digits.
NumReCaptures(val) ==
    IF StartsWith(val, "+") \/ StartsWith(val, "-")
    THEN [sign |-> <<val[1]>>, digits |-> Tail(val)]
    ELSE [sign |-> <<>>, digits |-> val]

\* Mutant of parse_num: the digits are parsed and the result negated, so the
\* magnitude has to fit in i64 by itself.
parse_num_negate_after(val) ==
    IF ~NumReMatches(val) THEN NumErr(val)
    ELSE LET caps == NumReCaptures(val)
             sign == IF caps.sign = <<>> THEN <<"-">> ELSE caps.sign
             p == ParseI64(caps.digits)
         IN  IF ~p.ok THEN NumErr(val)
             ELSE IF sign = <<"+">> /\ p.n.mag = <<"0">> THEN NumOk(PlusZero)
             ELSE NumOk(TakeNum(I64(sign = <<"-">> /\ p.n.mag # <<"0">>, p.n.mag)))

\* lib.rs
parse_num(val) ==
    IF ~NumReMatches(val) THEN NumErr(val)
    ELSE LET caps == NumReCaptures(val)
             sign == IF caps.sign = <<>> THEN <<"-">> ELSE caps.sign
             num == ParseI64(sign \o caps.digits)
         IN  IF num.ok
             THEN IF sign = <<"+">> /\ num.n = I64(FALSE, <<"0">>)
                  THEN NumOk(PlusZero)
                  ELSE NumOk(TakeNum(num.n))
             ELSE NumErr(val)

\* mylib_2.rs
parse_num_mylib_2(val) ==
    IF NumReMatches(val)
    THEN LET caps == NumReCaptures(val)
             sign == IF caps.sign = <<>> THEN <<"-">> ELSE caps.sign
             num == ParseI64(sign \o caps.digits)
         IN  IF ~num.ok THEN NumErr(val)
             ELSE IF sign = <<"+">> /\ num.n = I64(FALSE, <<"0">>)
             THEN NumOk(PlusZero)
             ELSE NumOk(TakeNum(num.n))
    ELSE NumErr(val)

-----------------------------------------------------------------------------
(* calr (mylib_2.rs): format_month.  A NaiveDate is [year, month, day]; a   *)
(* String is a sequence of one-character strings, the escape character of   *)
(* the terminal written "ESC"; an Option<NaiveDate> of the grid is a day    *)
(* number, 0 for None.                                                      *)

\* The first year drawn (that of test_format_month), and how many follow.
FirstYear == 2020
MaxYears == 7

MONTH_NAMES ==
    <<<<"J", "a", "n", "u", "a", "r", "y">>,
      <<"F", "e", "b", "r", "u", "a", "r", "y">>,
      <<"M", "a", "r", "c", "h">>,
      <<"A", "p", "r", "i", "l">>,
      <<"M", "a", "y">>,
      <<"J", "u", "n", "e">>,
      <<"J", "u", "l", "y">>,
      <<"A", "u", "g", "u", "s", "t">>,
      <<"S", "e", "p", "t", "e", "m", "b", "e", "r">>,
      <<"O", "c", "t", "o", "b", "e", "r">>,
      <<"N", "o", "v", "e", "m", "b", "e", "r">>,
      <<"D", "e", "c", "e", "m", "b", "e", "r">>>>

Date(y, m, d) == [year |-> y, month |-> m, day |-> d]

IsLeapYear(y) == (y % 4 = 0 /\ y % 100 # 0) \/ y % 400 = 0

DaysInMonth(y, m) ==
    IF m = 2 THEN (IF IsLeapYear(y) THEN 29 ELSE 28)
    ELSE IF m \in {4, 6, 9, 11} THEN 30 ELSE 31

\* NaiveDate::pred_opt(): the day before.
Pred(date) ==
    IF date.day > 1 THEN Date(date.year, date.month, date.day - 1)
    ELSE IF date.month > 1
         THEN Date(date.year, date.month - 1, DaysInMonth(date.year, date.month - 1))
         ELSE Date(date.year - 1, 12, 31)

RECURSIVE DaysBeforeMonth(_, _)
DaysBeforeMonth(y, m) ==
    IF m = 1 THEN 0 ELSE DaysBeforeMonth(y, m - 1) + DaysInMonth(y, m - 1)

\* Days from 0001-01-01 (a Monday) to the date, in the proleptic Gregorian
\* calendar of chrono.
DaysFromCE(date) ==
    LET y == date.year - 1
    IN  365 * y + (y \div 4) - (y \div 100) + (y \div 400)
            + DaysBeforeMonth(date.year, date.month) + date.day - 1

\* date.weekday().num_days_from_sunday()
NumDaysFromSunday(date) == (DaysFromCE(date) + 1) % 7

\* first_day.iter_days().find(|d| d.weekday() == Weekday::Sun): the day of
\* the month of the first Sunday on or after the first of the month.
FirstSundayDay(date) ==
    LET first_day == Date(date.year, date.month, 1)
    IN  1 + ((7 - NumDaysFromSunday(first_day)) % 7)

\* (x as f64 / 7.0).floor() as i32
FloorDiv7(x) == IF x >= 0 THEN x \div 7 ELSE 0 - ((6 - x) \div 7)

week_of_month(date) ==
    LET day_of_month == date.day
        days_to_first_sunday == day_of_month - FirstSundayDay(date)
    IN  FloorDiv7(days_to_first_sunday - 7) + 2

last_day_in_month(year, month) ==
    LET next_month == IF month = 12 THEN Date(year + 1, 1, 1)
                      ELSE Date(year, month + 1, 1)
    IN  Pred(next_month)

Spaces(n) == [i \in 1..n |-> " "]

\* format!("{:^20}", s): centred, the odd space on the right.
Center20(s) ==
    IF Len(s) >= 20 THEN s
    ELSE LET pad == 20 - Len(s)
         IN  Spaces(pad \div 2) \o s \o Spaces(pad - (pad \div 2))

\* format!("{:<20}", s)
Left20(s) == IF Len(s) >= 20 THEN s ELSE s \o Spaces(20 - Len(s))

\* format!("{:>2}", s)
Right2(s) == IF Len(s) >= 2 THEN s ELSE Spaces(2 - Len(s)) \o s

\* Style::new().reverse().paint(s), displayed: the width is not applied.
Paint(s) == <<"ESC", "[", "7", "m">> \o s \o <<"ESC", "[", "0", "m">>

WeekdayHeader ==
    <<"S", "u", " ", "M", "o", " ", "T", "u", " ", "W", "e", " ",
      "T", "h", " ", "F", "r", " ", "S", "a">>

\* vec![vec![None; 7]; 6]
EmptyCal == [w \in 0..5 |-> [c \in 0..6 |-> 0]]

\* The grid after the days first_day .. first_day + n - 1 were placed.
RECURSIVE PlaceDays(_, _, _)
PlaceDays(year, month, n) ==
    IF n = 0 THEN EmptyCal
    ELSE LET d == Date(year, month, n)
             w == week_of_month(d)
             weekday == NumDaysFromSunday(d)
         IN  [PlaceDays(year, month, n - 1) EXCEPT ![w][weekday] = n]

\* The text of one cell of the grid.
DayText(year, month, day, today) ==
    IF day = 0 THEN Spaces(2)
    ELSE IF Date(year, month, day) = today THEN Paint(ToDec(day))
    ELSE Right2(ToDec(day))

RECURSIVE JoinSpace(_)
JoinSpace(cells) ==
    IF Len(cells) = 0 THEN <<>>
    ELSE IF Len(cells) = 1 THEN cells[1]
    ELSE cells[1] \o <<" ">> \o JoinSpace(Tail(cells))

WeekLine(year, month, week, today) ==
    Left20(JoinSpace([c \in 1..7 |-> DayText(year, month, week[c - 1], today)]))

format_month(year, month, print_year, today) ==
    LET last_day == last_day_in_month(year, month)
        header_text == IF print_year
                       THEN MONTH_NAMES[month] \o <<" ">> \o ToDec(year)
                       ELSE MONTH_NAMES[month]
        header == Center20(header_text)
        cal == PlaceDays(year, month, last_day.day)
        calendar == <<header, WeekdayHeader>>
                        \o [w \in 1..6 |-> WeekLine(year, month, cal[w - 1], today)]
    IN  [cal |-> cal,
         calendar |-> [i \in 1..Len(calendar) |-> calendar[i] \o Spaces(2)]]

-----------------------------------------------------------------------------
(* wcr (mylib.rs): count and the loop of run.  A text is a sequence of      *)
(* chars (code points), valid UTF-8 that the buffer of the reader holds     *)
(* whole, as the Cursor of test_count does.                                 *)

\* Longest text handed to count, in chars.
MaxTextLen == 3
\* Longest file of a run of wcr, in chars, and the most files of a run.
MaxFileLen == 1
MaxFiles == 3

LF == 10

CR == 13

\* u8::is_ascii_whitespace: space, tab, line feed, form feed, carriage return.
IsAsciiWhitespace(c) == c \in {32, 9, 10, 12, 13}

\* BufRead::lines(): the text cut after every "\n", each line without its
\* "\n" and without a "\r" right before it; a last line need not end in "\n".
RECURSIVE LinesOf(_)
LinesOf(text) ==
    IF Len(text) = 0 THEN <<>>
    ELSE IF \A i \in 1..Len(text) : text[i] # LF THEN <<text>>
    ELSE LET i == CHOOSE k \in 1..Len(text) :
                      text[k] = LF /\ \A j \in 1..(k - 1) : text[j] # LF
             raw == SubSeq(text, 1, i - 1)
             l == IF Len(raw) > 0 /\ raw[Len(raw)] = CR
                  THEN SubSeq(raw, 1, Len(raw) - 1) ELSE raw
         IN  <<l>> \o LinesOf(SubSeq(text, i + 1, Len(text)))

\* str::split_ascii_whitespace().count(): the runs of non-whitespace chars.
WordCount(l) ==
    Cardinality({i \in 1..Len(l) :
                    /\ ~IsAsciiWhitespace(l[i])
                    /\ (i = 1 \/ IsAsciiWhitespace(l[i - 1]))})

RECURSIVE SumSeq(_)
SumSeq(ns) == IF Len(ns) = 0 THEN 0 ELSE ns[1] + SumSeq(Tail(ns))

count_lines(text) == Len(LinesOf(text))

count_words(text) ==
    LET ls == LinesOf(text) IN SumSeq([i \in 1..Len(ls) |-> WordCount(ls[i])])

count_bytes(text) == Len(AsBytes(text))

count_chars(text) ==
    LET ls == LinesOf(text) IN SumSeq([i \in 1..Len(ls) |-> Len(ls[i])])

FileInfo(l, w, b, c) ==
    [num_lines |-> l, num_words |-> w, num_bytes |-> b, num_chars |-> c]

count(text) ==
    FileInfo(count_lines(text), count_words(text), count_bytes(text), count_chars(text))

plus_fileinfo(a, b) ==
    FileInfo(a.num_lines + b.num_lines,
             a.num_words + b.num_words,
             a.num_bytes + b.num_bytes,
             a.num_chars + b.num_bytes)

\* print_result: the counters the Config selects, in the order lines,
\* words, bytes, chars, and the name; nothing when none is selected.
print_result(config, fileinfo, filename) ==
    LET shown == (IF config.lines THEN <<fileinfo.num_lines>> ELSE <<>>)
                     \o (IF config.words THEN <<fileinfo.num_words>> ELSE <<>>)
                     \o (IF config.bytes THEN <<fileinfo.num_bytes>> ELSE <<>>)
                     \o (IF config.chars THEN <<fileinfo.num_chars>> ELSE <<>>)
    IN  IF shown = <<>> THEN <<>>
        ELSE <<[counters |-> shown, filename |-> filename]>>

-----------------------------------------------------------------------------
(* cutr (mylib_2.rs): get_args and the loops of run.  The command line is   *)
(* [mode, range, delimiter]: which of --bytes, --chars, --fields is given   *)
(* ("None" when none is), its value, and the value of --delim.  The text of *)
(* a file is a sequence of chars (code points).                             *)

\* The most files of a run of cutr and the most chars in all of them.
MaxCutFiles == 2
MaxCutChars == 3

TAB == 9

DelimMsg(delimiter) ==
    [fmt |-> "--delim \"{}\" must be a single byte", args |-> <<delimiter>>]

RequiredMsg ==
    [fmt |-> "the following required arguments were not provided:\n  <--fields <FIELDS>|--bytes <BYTES>|--chars <CHARS>>",
     args |-> <<>>]

\* get_args: the Config, or the first error; parse_pos is called on the
\* value of the option that is given.
get_args(args) ==
    IF Len(AsBytes(args.delimiter)) # 1 THEN Err(DelimMsg(args.delimiter))
    ELSE IF args.mode = "None" THEN Err(RequiredMsg)
    ELSE LET pos == parse_pos(args.range)
         IN  IF pos.tag = "Err" THEN pos
             ELSE Ok([delimiter |-> AsBytes(args.delimiter)[1],
                      extract |-> [mode |-> args.mode, pos |-> pos.val]])

\* How many times get_args calls parse_pos.
ParseCallsOfGetArgs(args) ==
    IF Len(AsBytes(args.delimiter)) = 1 /\ args.mode # "None" THEN 1 ELSE 0

\* BufRead::read_line: the chars up to and including the first "\n", or all
\* of them when there is none.
read_line(rest) ==
    IF \E i \in 1..Len(rest) : rest[i] = LF
    THEN SubSeq(rest, 1, FirstIndex(rest, LF))
    ELSE rest

\* The records of a csv::Reader without headers over a text without quotes
\* and without "\r": the lines that are not empty, split at the delimiter.
RECURSIVE CsvRecords(_, _)
CsvRecords(rest, delimiter) ==
    IF Len(rest) = 0 THEN <<>>
    ELSE LET l == read_line(rest)
             after == SubSeq(rest, Len(l) + 1, Len(rest))
             content == IF l[Len(l)] = LF THEN SubSeq(l, 1, Len(l) - 1) ELSE l
         IN  IF Len(content) = 0 THEN CsvRecords(after, delimiter)
             ELSE <<Split(content, delimiter)>> \o CsvRecords(after, delimiter)

\* results.join(delimiter)
RECURSIVE JoinWith(_, _)
JoinWith(fields, delimiter) ==
    IF Len(fields) = 0 THEN <<>>
    ELSE IF Len(fields) = 1 THEN fields[1]
    ELSE fields[1] \o <<delimiter>> \o JoinWith(Tail(fields), delimiter)

-----------------------------------------------------------------------------
(* commr (lib.rs): the lines of run.  A line is a sequence of chars (code   *)
(* points); the files hold valid UTF-8, so that reading a line never fails. *)

\* The most lines of a file of commr.
MaxCommLines == 2

NoLine == [some |-> FALSE, val |-> <<>>]

SomeLine(v) == [some |-> TRUE, val |-> v]

\* Lines::next on the lines left.
NextLine(lines) == IF Len(lines) = 0 THEN NoLine ELSE SomeLine(Head(lines))

\* char::to_lowercase of an ASCII char.
LowerChar(c) == IF c >= 65 /\ c <= 90 THEN c + 32 ELSE c

\* str::to_lowercase
to_lowercase(line) == [i \in 1..Len(line) |-> LowerChar(line[i])]

\* a < b on Strings: the order of the bytes, which for ASCII is the order
\* of the chars.
RECURSIVE StrLess(_, _)
StrLess(a, b) ==
    IF Len(b) = 0 THEN FALSE
    ELSE IF Len(a) = 0 THEN TRUE
    ELSE IF a[1] # b[1] THEN a[1] < b[1]
    ELSE StrLess(Tail(a), Tail(b))

\* Option<String>::map(|s| s.to_lowercase()) when -i is given.
Folded(l, insens) == IF insens /\ l.some THEN SomeLine(to_lowercase(l.val)) ELSE l

-----------------------------------------------------------------------------
(* State *)

VARIABLES
    range,          \* cutr: the range specification handed to parse_pos
    result,         \* cutr: what parse_pos of mylib_2.rs returned
    result_my,      \* cutr: what parse_pos of mylib.rs returned
    extract,        \* cutr: Config.extract, the mode and its PositionList
    line,           \* cutr: the line an extractor is handed (bytes, chars)
    record,         \* cutr: the record extract_fields is handed
    output,         \* cutr: what the last extractor call returned
    take_val,       \* tailr: the TakeValue handed to get_start_index
    total,          \* tailr: the total handed to get_start_index
    start_index,    \* tailr: what get_start_index of lib.rs returned
    start_index_my, \* tailr: what get_start_index of mylib_2.rs returned
    num_val,        \* tailr: the string handed to parse_num
    num_result,     \* tailr: what parse_num of lib.rs returned
    num_result_my,  \* tailr: what parse_num of mylib_2.rs returned
    year,           \* calr: the year handed to format_month
    month,          \* calr: the month handed to format_month
    print_year,     \* calr: whether the header names the year
    today,          \* calr: the date to highlight
    cal,            \* calr: the grid of format_month, 6 weeks of 7 days
    calendar,       \* calr: the lines format_month returned
    text,           \* wcr: the text handed to count
    fileinfo,       \* wcr: what count returned
    config,         \* wcr: the counters to show
    files,          \* wcr: the files of the run, [ok, text] each
    file_index,     \* wcr: how many files the loop of run has gone through
    wc_total,       \* wcr: total of run
    rows,           \* wcr: the rows printed so far
    wc_done,        \* wcr: run has returned
    cut_args,       \* cutr: the command line, [mode, range, delimiter]
    cut_files,      \* cutr: the files named on the command line, [ok, text]
    cut_pc,         \* cutr: "args", "main", "run", "done" or "failed"
    cut_config,     \* cutr: what get_args returned
    cut_index,      \* cutr: how many files the loop of run has gone through
    reader,         \* cutr: the open file of run: what is left to read
    stdout,         \* cutr: the chars printed so far
    cut_result,     \* cutr: what the last extractor call returned
    parse_calls,    \* cutr: how many times parse_pos was called
    used,           \* cutr: the PositionLists handed to the extractors
    lines_read,     \* cutr: how many lines and records were read
    print_impl,     \* tailr print_lines: "lib" or "mylib_2"
    num_lines,      \* tailr print_lines: the TakeValue asked for
    file,           \* tailr print_lines: the lines left to read, by number
    total_lines,    \* tailr print_lines: the number of lines of the file
    print_start,    \* tailr print_lines: what get_start_index returned
    line_num,       \* tailr print_lines: the counter of the loop
    printed,        \* tailr print_lines: the lines printed, by number
    print_pc,       \* tailr print_lines: "call", "loop" or "done"
    insensitive,    \* commr: config.insensitive
    comm_files,     \* commr: the lines of file1 and of file2
    file1_lines,    \* commr: the lines of file1 not yet read
    file2_lines,    \* commr: the lines of file2 not yet read
    line1,          \* commr: the pending line of file1
    line2,          \* commr: the pending line of file2
    cols,           \* commr: the rows of three columns pushed so far
    placed,         \* commr: per row its column and the lines it consumed
    comm_pc         \* commr: "start", "loop" or "print"

parseVars == <<range, result, result_my>>

extractVars == <<extract, line, record, output>>

tailVars == <<take_val, total, start_index, start_index_my>>

numVars == <<num_val, num_result, num_result_my>>

calVars == <<year, month, print_year, today, cal, calendar>>

countVars == <<text, fileinfo>>

wcVars == <<config, files, file_index, wc_total, rows, wc_done>>

printVars ==
    <<print_impl, num_lines, file, total_lines, print_start, line_num, printed,
      print_pc>>

commVars ==
    <<insensitive, comm_files, file1_lines, file2_lines, line1, line2, cols,
      placed, comm_pc>>

cutVars ==
    <<cut_args, cut_files, cut_pc, cut_config, cut_index, reader, stdout,
      cut_result, parse_calls, used, lines_read>>

\* The variables of the other programs, for the steps of cutr's parsers and
\* extractors and of get_start_index.
laterVars == <<numVars, calVars, countVars, wcVars, cutVars, printVars, commVars>>

\* The variables of cutr's parsers and extractors and of get_start_index.
earlyVars == <<parseVars, extractVars, tailVars>>

\* The variables of the other programs, for the steps of num.
numOthers == <<calVars, countVars, wcVars, cutVars, printVars, commVars>>

\* The variables of the other programs, for the steps of cal.
calOthers == <<numVars, countVars, wcVars, cutVars, printVars, commVars>>

\* The variables of the other programs, for the steps of count.
countOthers == <<numVars, calVars, wcVars, cutVars, printVars, commVars>>

\* The variables of the other programs, for the steps of wc.
wcOthers == <<numVars, calVars, countVars, cutVars, printVars, commVars>>

\* The variables of the other programs, for the steps of cut.
cutOthers == <<numVars, calVars, countVars, wcVars, printVars, commVars>>

\* The variables of the other programs, for the steps of print.
printOthers == <<numVars, calVars, countVars, wcVars, cutVars, commVars>>

\* The variables of the other programs, for the steps of comm.
commOthers == <<numVars, calVars, countVars, wcVars, cutVars, printVars>>

vars == <<parseVars, extractVars, tailVars, laterVars>>

NoOutput == [tag |-> "None", val |-> <<>>]

Returned(v) == [tag |-> "Returned", val |-> v]

Panicked == [tag |-> "Panicked", val |-> <<>>]

\* No range specification is being parsed.
ParseIdle == range = <<>> /\ result = NotCalled /\ result_my = NotCalled

\* No extractor is in use.
ExtractIdle ==
    /\ extract = [mode |-> "Idle", pos |-> <<>>]
    /\ line = <<>>
    /\ record = <<>>
    /\ output = NoOutput

\* tailr is not in use.
TailIdle ==
    /\ take_val = PlusZero
    /\ total = 0
    /\ start_index = NotComputed
    /\ start_index_my = NotComputed

\* parse_num is not in use.  The variables of a program that is not in use
\* hold empty values.
NumIdle ==
    /\ num_val = <<>>
    /\ num_result = <<>>
    /\ num_result_my = <<>>

\* format_month is not in use.
CalIdle ==
    /\ year = 0
    /\ month = 0
    /\ print_year = FALSE
    /\ today = <<>>
    /\ cal = <<>>
    /\ calendar = <<>>

NotCounted == FileInfo(0 - 1, 0 - 1, 0 - 1, 0 - 1)

\* count is not in use.
CountIdle == text = <<>> /\ fileinfo = <<>>

\* run of wcr is not in use.
WcIdle ==
    /\ config = <<>>
    /\ files = <<>>
    /\ file_index = 0
    /\ wc_total = <<>>
    /\ rows = <<>>
    /\ wc_done = FALSE

\* print_lines of tailr is not in use.
PrintIdle ==
    /\ print_impl = "idle"
    /\ num_lines = <<>>
    /\ file = <<>>
    /\ total_lines = 0
    /\ print_start = <<>>
    /\ line_num = 0
    /\ printed = <<>>
    /\ print_pc = "idle"

\* commr is not in use.
CommIdle ==
    /\ insensitive = FALSE
    /\ comm_files = <<>>
    /\ file1_lines = <<>>
    /\ file2_lines = <<>>
    /\ line1 = <<>>
    /\ line2 = <<>>
    /\ cols = <<>>
    /\ placed = <<>>
    /\ comm_pc = "idle"

\* No file is open in run of cutr.
Closed == [open |-> FALSE, rest |-> <<>>, records |-> <<>>, width |-> 0]

\* cutr as a program is not in use.
CutIdle ==
    /\ cut_args = <<>>
    /\ cut_files = <<>>
    /\ cut_pc = "idle"
    /\ cut_config = <<>>
    /\ cut_index = 0
    /\ reader = <<>>
    /\ stdout = <<>>
    /\ cut_result = <<>>
    /\ parse_calls = 0
    /\ used = {}
    /\ lines_read = 0

\* None of the other programs is in use.
LaterIdle == NumIdle /\ CalIdle /\ CountIdle /\ WcIdle /\ CutIdle /\ PrintIdle /\ CommIdle

\* cutr's parsers and extractors and get_start_index are not in use.
EarlyIdle == ParseIdle /\ ExtractIdle /\ TailIdle

NumOthersIdle == CalIdle /\ CountIdle /\ WcIdle /\ CutIdle /\ PrintIdle /\ CommIdle

CalOthersIdle == NumIdle /\ CountIdle /\ WcIdle /\ CutIdle /\ PrintIdle /\ CommIdle

CountOthersIdle == NumIdle /\ CalIdle /\ WcIdle /\ CutIdle /\ PrintIdle /\ CommIdle

WcOthersIdle == NumIdle /\ CalIdle /\ CountIdle /\ CutIdle /\ PrintIdle /\ CommIdle

CutOthersIdle == NumIdle /\ CalIdle /\ CountIdle /\ WcIdle /\ PrintIdle /\ CommIdle

PrintOthersIdle == NumIdle /\ CalIdle /\ CountIdle /\ WcIdle /\ CutIdle /\ CommIdle

CommOthersIdle == NumIdle /\ CalIdle /\ CountIdle /\ WcIdle /\ CutIdle /\ PrintIdle

-----------------------------------------------------------------------------
(* State machine: one range specification, handed to each implementation *)

Init ==
    /\ range \in Strings
    /\ result = NotCalled
    /\ result_my = NotCalled
    /\ ExtractIdle
    /\ TailIdle
    /\ LaterIdle

\* mylib_2.rs parse_pos is called on the specification.
ParsePos ==
    /\ result = NotCalled
    /\ result' = parse_pos(range)
    /\ UNCHANGED <<range, result_my, extractVars, tailVars, laterVars>>

\* mylib.rs parse_pos is called on the specification.
ParsePosMylib ==
    /\ result_my = NotCalled
    /\ result_my' = parse_pos_mylib(range)
    /\ UNCHANGED <<range, result, extractVars, tailVars, laterVars>>

Next == ParsePos \/ ParsePosMylib

Spec == Init /\ [][Next]_vars

\* Both implementations are called on the specification, one after the
\* other, as a comparison of the two does.
ParsePosBoth ==
    /\ result = NotCalled /\ result_my = NotCalled
    /\ result' = parse_pos(range)
    /\ result_my' = parse_pos_mylib(range)
    /\ UNCHANGED <<range, extractVars, tailVars, laterVars>>

NextCompare == ParsePosBoth

SpecCompare == Init /\ [][NextCompare]_vars

-----------------------------------------------------------------------------
(* State machine: one PositionList, used by an extractor on input after    *)
(* input, as the loops of run do (mylib_2.rs)                               *)

\* The chars lines are made of: U+00E1 (two bytes in UTF-8) and 'b'.
LineChars == {225, 98}

FieldValues == {"Captain", "Sham"}

Lines == UNION {[1..n -> LineChars] : n \in 0..MaxLineLen}

Records == UNION {[1..n -> FieldValues] : n \in 0..MaxLineLen}

\* Every interval over 0..MaxPos, the empty and the reversed ones too.
Ranges == {Range(s, e) : s \in 0..MaxPos, e \in 0..MaxPos}

PositionLists == UNION {[1..n -> Ranges] : n \in 0..MaxRanges}

InitExtract ==
    /\ extract \in [mode : {"Bytes", "Chars", "Fields"}, pos : PositionLists]
    /\ line \in (IF extract.mode = "Fields" THEN {<<>>} ELSE Lines)
    /\ record \in (IF extract.mode = "Fields" THEN Records ELSE {<<>>})
    /\ output = NoOutput
    /\ ParseIdle
    /\ TailIdle
    /\ LaterIdle

\* The extractors take shared borrows (&str, &StringRecord, &[Range<usize>])
\* and return a fresh value: each call leaves extract, line and record alone.

\* What the extractor of the mode was handed.
Input == IF extract.mode = "Fields" THEN record ELSE line

\* Mutant of ExtractBytes: the slices are taken by indexing, which panics on
\* an interval that is reversed or reaches past the end of the line.
ExtractBytesIndexing ==
    /\ extract.mode = "Bytes"
    /\ output = NoOutput
    /\ output' = IF \E i \in 1..Len(extract.pos) :
                        \/ extract.pos[i].start > extract.pos[i].end
                        \/ extract.pos[i].end > Len(AsBytes(line))
                 THEN Panicked
                 ELSE Returned(extract_bytes(line, extract.pos))
    /\ UNCHANGED <<extract, line, record, parseVars, tailVars, laterVars>>

\* run, Bytes arm: extract_bytes(&line, byte_pos)
ExtractBytes ==
    /\ extract.mode = "Bytes"
    /\ output = NoOutput
    /\ output' = Returned(extract_bytes(line, extract.pos))
    /\ UNCHANGED <<extract, line, record, parseVars, tailVars, laterVars>>

\* run, Chars arm: extract_chars(&line, char_pos)
ExtractChars ==
    /\ extract.mode = "Chars"
    /\ output = NoOutput
    /\ output' = Returned(extract_chars(line, extract.pos))
    /\ UNCHANGED <<extract, line, record, parseVars, tailVars, laterVars>>

\* run, Fields arm: extract_fields(&record?, field_pos)
ExtractFields ==
    /\ extract.mode = "Fields"
    /\ output = NoOutput
    /\ output' = Returned(extract_fields(record, extract.pos))
    /\ UNCHANGED <<extract, line, record, parseVars, tailVars, laterVars>>

\* run, Bytes and Chars arms: the result is printed and the next line read.
ReadLine ==
    /\ extract.mode \in {"Bytes", "Chars"}
    /\ output # NoOutput
    /\ line' \in Lines
    /\ output' = NoOutput
    /\ UNCHANGED <<extract, record, parseVars, tailVars, laterVars>>

\* run, Fields arm: the result is printed and the next record read.
ReadRecord ==
    /\ extract.mode = "Fields"
    /\ output # NoOutput
    /\ record' \in Records
    /\ output' = NoOutput
    /\ UNCHANGED <<extract, line, parseVars, tailVars, laterVars>>

NextExtract ==
    ExtractBytes \/ ExtractChars \/ ExtractFields \/ ReadLine \/ ReadRecord

SpecExtract == InitExtract /\ [][NextExtract]_vars

-----------------------------------------------------------------------------
(* State machine: get_start_index, both implementations on the same input *)

InitTail ==
    /\ take_val \in TakeValues
    /\ total \in 0..MaxTotal
    /\ start_index = NotComputed
    /\ start_index_my = NotComputed
    /\ ParseIdle
    /\ ExtractIdle
    /\ LaterIdle

\* lib.rs get_start_index is called.
GetStartIndex ==
    /\ start_index = NotComputed
    /\ start_index' = get_start_index(take_val, total)
    /\ UNCHANGED <<take_val, total, start_index_my, parseVars, extractVars, laterVars>>

\* mylib_2.rs get_start_index is called.
GetStartIndexMylib2 ==
    /\ start_index_my = NotComputed
    /\ start_index_my' = get_start_index_mylib_2(take_val, total)
    /\ UNCHANGED <<take_val, total, start_index, parseVars, extractVars, laterVars>>

NextTail == GetStartIndex \/ GetStartIndexMylib2

SpecTail == InitTail /\ [][NextTail]_vars

-----------------------------------------------------------------------------
(* State machine: parse_num, both implementations on the same string *)

NumAlphabet == {"0", "3", "+", "-", "a", ArabicThree}

NumShortStrings == UNION {[1..n -> NumAlphabet] : n \in 0..MaxNumLen}

\* Digit strings at the bounds of i64: MAX - 1, MAX, -MIN, -MIN + 1.
BoundaryDigits ==
    {[I64MaxDigits EXCEPT ![Len(I64MaxDigits)] = "6"], I64MaxDigits,
     I64MinDigits, [I64MinDigits EXCEPT ![Len(I64MinDigits)] = "9"]}

\* The same with each sign and without, with and without a leading zero.
BoundaryStrings ==
    {sign \o zeros \o d : sign \in {<<>>, <<"+">>, <<"-">>},
                          zeros \in {<<>>, <<"0">>},
                          d \in BoundaryDigits}

InitNum ==
    /\ num_val \in NumShortStrings \cup BoundaryStrings
    /\ num_result = NumNotCalled
    /\ num_result_my = NumNotCalled
    /\ EarlyIdle
    /\ NumOthersIdle

\* lib.rs parse_num is called.
ParseNum ==
    /\ num_result = NumNotCalled
    /\ num_result' = parse_num(num_val)
    /\ UNCHANGED <<num_val, num_result_my, earlyVars, numOthers>>

\* mylib_2.rs parse_num is called.
ParseNumMylib2 ==
    /\ num_result_my = NumNotCalled
    /\ num_result_my' = parse_num_mylib_2(num_val)
    /\ UNCHANGED <<num_val, num_result, earlyVars, numOthers>>

NextNum == ParseNum \/ ParseNumMylib2

SpecNum == InitNum /\ [][NextNum]_vars

-----------------------------------------------------------------------------
(* State machine: format_month of calr on one month *)

Years == FirstYear..(FirstYear + MaxYears - 1)

\* The dates of test_format_month: one outside every month drawn, one inside.
Todays == {Date(0, 1, 1), Date(2021, 4, 7)}

InitCal ==
    /\ year \in Years
    /\ month \in 1..12
    /\ print_year \in BOOLEAN
    /\ today \in Todays
    /\ cal = EmptyCal
    /\ calendar = <<>>
    /\ EarlyIdle
    /\ CalOthersIdle

\* format_month(year, month, print_year, today) is called.
FormatMonth ==
    /\ calendar = <<>>
    /\ cal' = format_month(year, month, print_year, today).cal
    /\ calendar' = format_month(year, month, print_year, today).calendar
    /\ UNCHANGED <<year, month, print_year, today, earlyVars, calOthers>>

NextCal == FormatMonth

SpecCal == InitCal /\ [][NextCal]_vars

-----------------------------------------------------------------------------
(* State machine: count of wcr on one text *)

\* 'a', ' ', "\n", "\r" and U+00E1 (two bytes in UTF-8).
TextChars == {97, 32, LF, CR, 225}

Texts == UNION {[1..n -> TextChars] : n \in 0..MaxTextLen}

InitCount ==
    /\ text \in Texts
    /\ fileinfo = NotCounted
    /\ EarlyIdle
    /\ CountOthersIdle

\* count(Cursor::new(text))
Count ==
    /\ fileinfo = NotCounted
    /\ fileinfo' = count(text)
    /\ UNCHANGED <<text, earlyVars, countOthers>>

NextCount == Count

SpecCount == InitCount /\ [][NextCount]_vars

-----------------------------------------------------------------------------
(* State machine: run of wcr over its files *)

\* 'a', "\n" and U+00E1.
FileChars == {97, LF, 225}

FileTexts == UNION {[1..n -> FileChars] : n \in 0..MaxFileLen}

\* A file that open refuses, and the files it opens.
Files == {[ok |-> FALSE, text |-> <<>>]} \cup {[ok |-> TRUE, text |-> t] : t \in FileTexts}

\* The name of the i-th file of the run: its number.
FileName(i) == ToDec(i)

\* get_args: lines, words and bytes when no flag is given; -m for chars.
Configs ==
    {[lines |-> TRUE, words |-> TRUE, bytes |-> TRUE, chars |-> FALSE],
     [lines |-> FALSE, words |-> FALSE, bytes |-> FALSE, chars |-> TRUE]}

InitWc ==
    /\ config \in Configs
    /\ files \in UNION {[1..n -> Files] : n \in 1..MaxFiles}
    /\ file_index = 0
    /\ wc_total = FileInfo(0, 0, 0, 0)
    /\ rows = <<>>
    /\ wc_done = FALSE
    /\ EarlyIdle
    /\ WcOthersIdle

\* run, the Err arm of match open(&filename): a message on stderr.
OpenFails ==
    /\ file_index < Len(files)
    /\ ~files[file_index + 1].ok
    /\ file_index' = file_index + 1
    /\ UNCHANGED <<config, files, wc_total, rows, wc_done, earlyVars, wcOthers>>

\* run, the Ok arm: the file is counted, its row printed and total updated.
CountFile ==
    /\ file_index < Len(files)
    /\ files[file_index + 1].ok
    /\ LET info == count(files[file_index + 1].text)
       IN  /\ rows' = rows \o print_result(config, info, FileName(file_index + 1))
           /\ wc_total' = plus_fileinfo(wc_total, info)
    /\ file_index' = file_index + 1
    /\ UNCHANGED <<config, files, wc_done, earlyVars, wcOthers>>

\* run, after the loop: the "total" row when there are several files.
PrintTotal ==
    /\ file_index = Len(files)
    /\ ~wc_done
    /\ rows' = IF Len(files) > 1
               THEN rows \o print_result(config, wc_total, <<"t", "o", "t", "a", "l">>)
               ELSE rows
    /\ wc_done' = TRUE
    /\ UNCHANGED <<config, files, file_index, wc_total, earlyVars, wcOthers>>

NextWc == OpenFails \/ CountFile \/ PrintTotal

SpecWc == InitWc /\ [][NextWc]_vars
-----------------------------------------------------------------------------
(* State machine: one invocation of cutr (mylib_2.rs): get_args, then run   *)
(* over the files of the command line, line after line.                     *)

\* The chars of the files: 'a' and the line end, and the default delimiter
\* where fields are cut.
CutChars(mode) == IF mode = "Fields" THEN {97, TAB, LF} ELSE {97, LF}

CutTexts(mode, len) == UNION {[1..n -> CutChars(mode)] : n \in 0..len}

\* A file that cannot be opened, or one that can with its text.
CutFiles(mode, len) ==
    {[ok |-> FALSE, text |-> <<>>]} \cup [ok : {TRUE}, text : CutTexts(mode, len)]

\* The sequences of n files with no more than len chars in all.
RECURSIVE CutFileSeqs(_, _, _)
CutFileSeqs(mode, n, len) ==
    IF n = 0 THEN {<<>>}
    ELSE UNION {{<<f>> \o fs : fs \in CutFileSeqs(mode, n - 1, len - Len(f.text))} :
                   f \in CutFiles(mode, len)}

\* The values of --bytes, --chars and --fields: "1", "1-2", "2,1", "0" and
\* a range with a digit outside ASCII.
CutRanges ==
    {<<"1">>, <<"1", "-", "2">>, <<"2", ",", "1">>, <<"0">>, <<ArabicThree, "-", "1">>}

\* The command lines: one of the three options with the default delimiter,
\* none of them, or a delimiter of two bytes.
CutArgs ==
    [mode : {"Bytes", "Chars", "Fields"}, range : CutRanges, delimiter : {<<TAB>>}]
    \cup {[mode |-> "None", range |-> <<>>, delimiter |-> <<TAB>>],
          [mode |-> "Bytes", range |-> <<"1">>, delimiter |-> <<TAB, TAB>>]}

\* config.files is never empty: without a FILE argument it is the default
\* "-", and stdin is the one file.
InitCut ==
    /\ cut_args \in CutArgs
    /\ cut_files \in UNION {CutFileSeqs(cut_args.mode, n, MaxCutChars) : n \in 1..MaxCutFiles}
    /\ cut_pc = "args"
    /\ cut_config = NotCalled
    /\ cut_index = 0
    /\ reader = Closed
    /\ stdout = <<>>
    /\ cut_result = <<>>
    /\ parse_calls = 0
    /\ used = {}
    /\ lines_read = 0
    /\ EarlyIdle
    /\ CutOthersIdle

\* get_args
GetArgs ==
    /\ cut_pc = "args"
    /\ cut_config' = get_args(cut_args)
    /\ parse_calls' = parse_calls + ParseCallsOfGetArgs(cut_args)
    /\ cut_pc' = "main"
    /\ UNCHANGED <<cut_args, cut_files, cut_index, reader, stdout, cut_result,
                   used, lines_read, earlyVars, cutOthers>>

\* main: run is called with the Config of get_args; an error of get_args
\* ends the program.
CutMain ==
    /\ cut_pc = "main"
    /\ cut_pc' = IF cut_config.tag = "Ok" THEN "run" ELSE "failed"
    /\ UNCHANGED <<cut_args, cut_files, cut_config, cut_index, reader, stdout,
                   cut_result, parse_calls, used, lines_read, earlyVars,
                   cutOthers>>

\* run is between two files and another one follows.
AtNextFile == cut_pc = "run" /\ ~reader.open /\ cut_index < Len(cut_files)

\* run: open(filename) is Err; the message goes to stderr.
CutOpenFails ==
    /\ AtNextFile
    /\ ~cut_files[cut_index + 1].ok
    /\ cut_index' = cut_index + 1
    /\ UNCHANGED <<cut_args, cut_files, cut_pc, cut_config, reader, stdout,
                   cut_result, parse_calls, used, lines_read, earlyVars,
                   cutOthers>>

\* run: open(filename) is Ok; in the Fields arm a csv::Reader is built.
CutOpen ==
    /\ AtNextFile
    /\ cut_files[cut_index + 1].ok
    /\ reader' =
           IF cut_config.val.extract.mode = "Fields"
           THEN [open |-> TRUE, rest |-> <<>>,
                 records |-> CsvRecords(cut_files[cut_index + 1].text,
                                        cut_config.val.delimiter),
                 width |-> 0]
           ELSE [open |-> TRUE, rest |-> cut_files[cut_index + 1].text,
                 records |-> <<>>, width |-> 0]
    /\ UNCHANGED <<cut_args, cut_files, cut_pc, cut_config, cut_index, stdout,
                   cut_result, parse_calls, used, lines_read, earlyVars,
                   cutOthers>>

\* A line is left to read in the Bytes or Chars arm.
AtLine(mode) ==
    /\ cut_pc = "run"
    /\ reader.open
    /\ cut_config.val.extract.mode = mode
    /\ Len(reader.rest) > 0

\* Mutant of CutReadLineBytes: the range is parsed again for every line.
CutReadLineBytesParsing ==
    /\ AtLine("Bytes")
    /\ LET l == read_line(reader.rest)
           pos == parse_pos(cut_args.range).val
           res == extract_bytes(l, pos)
       IN  /\ reader' = [reader EXCEPT !.rest = SubSeq(@, Len(l) + 1, Len(@))]
           /\ cut_result' = res
           /\ used' = used \cup {pos}
           /\ stdout' = stdout \o res \o <<LF>>
    /\ parse_calls' = parse_calls + 1
    /\ lines_read' = lines_read + 1
    /\ UNCHANGED <<cut_args, cut_files, cut_pc, cut_config, cut_index,
                   earlyVars, cutOthers>>

\* run, Bytes arm: read_line, extract_bytes, println!
CutReadLineBytes ==
    /\ AtLine("Bytes")
    /\ LET l == read_line(reader.rest)
           pos == cut_config.val.extract.pos
           res == extract_bytes(l, pos)
       IN  /\ reader' = [reader EXCEPT !.rest = SubSeq(@, Len(l) + 1, Len(@))]
           /\ cut_result' = res
           /\ used' = used \cup {pos}
           /\ stdout' = stdout \o res \o <<LF>>
    /\ lines_read' = lines_read + 1
    /\ UNCHANGED <<cut_args, cut_files, cut_pc, cut_config, cut_index,
                   parse_calls, earlyVars, cutOthers>>

\* run, Chars arm: read_line, extract_chars, println!
CutReadLineChars ==
    /\ AtLine("Chars")
    /\ LET l == read_line(reader.rest)
           pos == cut_config.val.extract.pos
           res == extract_chars(l, pos)
       IN  /\ reader' = [reader EXCEPT !.rest = SubSeq(@, Len(l) + 1, Len(@))]
           /\ cut_result' = res
           /\ used' = used \cup {pos}
           /\ stdout' = stdout \o res \o <<LF>>
    /\ lines_read' = lines_read + 1
    /\ UNCHANGED <<cut_args, cut_files, cut_pc, cut_config, cut_index,
                   parse_calls, earlyVars, cutOthers>>

\* run, Fields arm: the next record; one whose number of fields differs
\* from the first record's is an error, which run returns.
CutReadRecord ==
    /\ cut_pc = "run"
    /\ reader.open
    /\ cut_config.val.extract.mode = "Fields"
    /\ Len(reader.records) > 0
    /\ LET rec == Head(reader.records)
           pos == cut_config.val.extract.pos
           res == JoinWith(extract_fields(rec, pos), cut_config.val.delimiter)
       IN  IF reader.width # 0 /\ Len(rec) # reader.width
           THEN /\ cut_pc' = "failed"
                /\ reader' = Closed
                /\ UNCHANGED <<cut_result, used, stdout>>
           ELSE /\ reader' = [reader EXCEPT !.records = Tail(@), !.width = Len(rec)]
                /\ cut_result' = res
                /\ used' = used \cup {pos}
                /\ stdout' = stdout \o res \o <<LF>>
                /\ UNCHANGED cut_pc
    /\ lines_read' = lines_read + 1
    /\ UNCHANGED <<cut_args, cut_files, cut_config, cut_index, parse_calls,
                   earlyVars, cutOthers>>

\* run: read_line returns 0, or the records are at their end.
CutEndOfFile ==
    /\ cut_pc = "run"
    /\ reader.open
    /\ Len(reader.rest) = 0
    /\ Len(reader.records) = 0
    /\ reader' = Closed
    /\ cut_index' = cut_index + 1
    /\ UNCHANGED <<cut_args, cut_files, cut_pc, cut_config, stdout, cut_result,
                   parse_calls, used, lines_read, earlyVars, cutOthers>>

\* run: Ok(()) after the last file.
CutReturn ==
    /\ cut_pc = "run"
    /\ ~reader.open
    /\ cut_index = Len(cut_files)
    /\ cut_pc' = "done"
    /\ UNCHANGED <<cut_args, cut_files, cut_config, cut_index, reader, stdout,
                   cut_result, parse_calls, used, lines_read, earlyVars,
                   cutOthers>>

NextCut ==
    \/ GetArgs
    \/ CutMain
    \/ CutOpenFails
    \/ CutOpen
    \/ CutReadLineBytes
    \/ CutReadLineChars
    \/ CutReadRecord
    \/ CutEndOfFile
    \/ CutReturn

SpecCut == InitCut /\ [][NextCut]_vars
-----------------------------------------------------------------------------
(* State machine: print_lines of tailr (lib.rs, mylib_2.rs) over a file of  *)
(* total_lines lines, which run has counted with count_lines_bytes.  A line *)
(* stands as its number in the file, from 1.                                *)

InitPrint ==
    /\ print_impl \in {"lib", "mylib_2"}
    /\ num_lines \in TakeValues
    /\ total_lines \in 0..MaxTotal
    /\ file = [i \in 1..total_lines |-> i]
    /\ print_start = NotComputed
    /\ line_num = 0
    /\ printed = <<>>
    /\ print_pc = "call"
    /\ EarlyIdle
    /\ PrintOthersIdle

\* print_lines: get_start_index(num_lines, total_lines); None returns Ok(()).
PrintLinesCall ==
    /\ print_pc = "call"
    /\ print_start' = IF print_impl = "lib"
                      THEN get_start_index(num_lines, total_lines)
                      ELSE get_start_index_mylib_2(num_lines, total_lines)
    /\ print_pc' = IF print_start'.tag = "Some" THEN "loop" ELSE "done"
    /\ UNCHANGED <<print_impl, num_lines, file, total_lines, line_num, printed,
                   earlyVars, printOthers>>

\* Mutant of PrintLinesRead: the line at the start index is not printed.
PrintLinesReadAfter ==
    /\ print_pc = "loop"
    /\ print_impl = "lib"
    /\ Len(file) > 0
    /\ printed' = IF line_num > print_start.val
                  THEN Append(printed, Head(file)) ELSE printed
    /\ file' = Tail(file)
    /\ line_num' = line_num + 1
    /\ UNCHANGED <<print_impl, num_lines, total_lines, print_start, print_pc,
                   earlyVars, printOthers>>

\* lib.rs print_lines, one turn of the loop: read_until returns a line, which
\* is printed if line_num >= start.
PrintLinesRead ==
    /\ print_pc = "loop"
    /\ print_impl = "lib"
    /\ Len(file) > 0
    /\ printed' = IF line_num >= print_start.val
                  THEN Append(printed, Head(file)) ELSE printed
    /\ file' = Tail(file)
    /\ line_num' = line_num + 1
    /\ UNCHANGED <<print_impl, num_lines, total_lines, print_start, print_pc,
                   earlyVars, printOthers>>

\* mylib_2.rs print_lines, one turn of the loop: read_line returns a line,
\* which is printed if count >= start_index.
PrintLinesReadMylib2 ==
    /\ print_pc = "loop"
    /\ print_impl = "mylib_2"
    /\ Len(file) > 0
    /\ printed' = IF line_num >= print_start.val
                  THEN Append(printed, Head(file)) ELSE printed
    /\ file' = Tail(file)
    /\ line_num' = line_num + 1
    /\ UNCHANGED <<print_impl, num_lines, total_lines, print_start, print_pc,
                   earlyVars, printOthers>>

\* print_lines: the read returns 0 and the loop breaks.
PrintLinesEnd ==
    /\ print_pc = "loop"
    /\ Len(file) = 0
    /\ print_pc' = "done"
    /\ UNCHANGED <<print_impl, num_lines, file, total_lines, print_start,
                   line_num, printed, earlyVars, printOthers>>

NextPrint ==
    \/ PrintLinesCall
    \/ PrintLinesRead
    \/ PrintLinesReadMylib2
    \/ PrintLinesEnd

SpecPrint == InitPrint /\ [][NextPrint]_vars
-----------------------------------------------------------------------------
(* State machine: run of commr (lib.rs) up to the end of its merge loop.    *)
(* placed keeps, for every row pushed, the column written and the numbers   *)
(* of the lines of file1 and file2 that the iteration consumed (0: none).   *)

\* The lines of the files: the empty line, "B", "a" and "b".
CommLines == {<<>>, <<66>>, <<97>>, <<98>>}

CommFiles == UNION {[1..n -> CommLines] : n \in 0..MaxCommLines}

InitComm ==
    /\ insensitive \in BOOLEAN
    /\ comm_files \in [1..2 -> CommFiles]
    /\ file1_lines = comm_files[1]
    /\ file2_lines = comm_files[2]
    /\ line1 = NoLine
    /\ line2 = NoLine
    /\ cols = <<>>
    /\ placed = <<>>
    /\ comm_pc = "start"
    /\ EarlyIdle
    /\ CommOthersIdle

\* The number in its file of the pending line.
Pending1 == Len(comm_files[1]) - Len(file1_lines)

Pending2 == Len(comm_files[2]) - Len(file2_lines)

\* run: the first line of each file is read.
CommStart ==
    /\ comm_pc = "start"
    /\ line1' = NextLine(file1_lines)
    /\ line2' = NextLine(file2_lines)
    /\ file1_lines' = IF Len(file1_lines) = 0 THEN <<>> ELSE Tail(file1_lines)
    /\ file2_lines' = IF Len(file2_lines) = 0 THEN <<>> ELSE Tail(file2_lines)
    /\ comm_pc' = "loop"
    /\ UNCHANGED <<insensitive, comm_files, cols, placed, earlyVars, commOthers>>

\* line1 = file1_lines.next()
Advance1 ==
    /\ line1' = NextLine(file1_lines)
    /\ file1_lines' = IF Len(file1_lines) = 0 THEN <<>> ELSE Tail(file1_lines)

\* line2 = file2_lines.next()
Advance2 ==
    /\ line2' = NextLine(file2_lines)
    /\ file2_lines' = IF Len(file2_lines) = 0 THEN <<>> ELSE Tail(file2_lines)

\* run, loop: both lines are None.
CommBreak ==
    /\ comm_pc = "loop"
    /\ ~line1.some /\ ~line2.some
    /\ comm_pc' = "print"
    /\ UNCHANGED <<insensitive, comm_files, file1_lines, file2_lines, line1,
                   line2, cols, placed, earlyVars, commOthers>>

\* run, loop: the arm (Some(some_line1), None).
CommOnly1 ==
    /\ comm_pc = "loop"
    /\ line1.some /\ ~line2.some
    /\ cols' = Append(cols, <<line1.val, <<>>, <<>>>>)
    /\ placed' = Append(placed, [col |-> 1, from1 |-> Pending1, from2 |-> 0])
    /\ Advance1
    /\ UNCHANGED <<insensitive, comm_files, file2_lines, line2, comm_pc,
                   earlyVars, commOthers>>

\* run, loop: the arm (None, Some(some_line2)).
CommOnly2 ==
    /\ comm_pc = "loop"
    /\ ~line1.some /\ line2.some
    /\ cols' = Append(cols, <<<<>>, line2.val, <<>>>>)
    /\ placed' = Append(placed, [col |-> 2, from1 |-> 0, from2 |-> Pending2])
    /\ Advance2
    /\ UNCHANGED <<insensitive, comm_files, file1_lines, line1, comm_pc,
                   earlyVars, commOthers>>

\* Mutant of CommBoth: the arm of line1 > line2 does not read from file2.
CommBothKeeping2 ==
    /\ comm_pc = "loop"
    /\ line1.some /\ line2.some
    /\ LET l1 == Folded(line1, insensitive)
           l2 == Folded(line2, insensitive)
       IN  IF l1.val = l2.val
           THEN /\ cols' = Append(cols, <<<<>>, <<>>, line1.val>>)
                /\ placed' = Append(placed, [col |-> 3, from1 |-> Pending1,
                                             from2 |-> Pending2])
                /\ Advance1
                /\ Advance2
           ELSE IF StrLess(l1.val, l2.val)
           THEN /\ cols' = Append(cols, <<line1.val, <<>>, <<>>>>)
                /\ placed' = Append(placed, [col |-> 1, from1 |-> Pending1,
                                             from2 |-> 0])
                /\ Advance1
                /\ line2' = l2
                /\ UNCHANGED file2_lines
           ELSE /\ cols' = Append(cols, <<<<>>, line2.val, <<>>>>)
                /\ placed' = Append(placed, [col |-> 2, from1 |-> 0,
                                             from2 |-> Pending2])
                /\ line1' = l1
                /\ line2' = l2
                /\ UNCHANGED <<file1_lines, file2_lines>>
    /\ UNCHANGED <<insensitive, comm_files, comm_pc, earlyVars, commOthers>>

\* run, loop: the arm (Some(some_line1), Some(some_line2)).  With -i both
\* pending lines are replaced by their lowercase; the row gets the clone
\* taken before, and a line that is not consumed stays as replaced.
CommBoth ==
    /\ comm_pc = "loop"
    /\ line1.some /\ line2.some
    /\ LET l1 == Folded(line1, insensitive)
           l2 == Folded(line2, insensitive)
       IN  IF l1.val = l2.val
           THEN /\ cols' = Append(cols, <<<<>>, <<>>, line1.val>>)
                /\ placed' = Append(placed, [col |-> 3, from1 |-> Pending1,
                                             from2 |-> Pending2])
                /\ Advance1
                /\ Advance2
           ELSE IF StrLess(l1.val, l2.val)
           THEN /\ cols' = Append(cols, <<line1.val, <<>>, <<>>>>)
                /\ placed' = Append(placed, [col |-> 1, from1 |-> Pending1,
                                             from2 |-> 0])
                /\ Advance1
                /\ line2' = l2
                /\ UNCHANGED file2_lines
           ELSE /\ cols' = Append(cols, <<<<>>, line2.val, <<>>>>)
                /\ placed' = Append(placed, [col |-> 2, from1 |-> 0,
                                             from2 |-> Pending2])
                /\ Advance2
                /\ line1' = l1
                /\ UNCHANGED file1_lines
    /\ UNCHANGED <<insensitive, comm_files, comm_pc, earlyVars, commOthers>>

NextComm ==
    \/ CommStart
    \/ CommBreak
    \/ CommOnly1
    \/ CommOnly2
    \/ CommBoth

SpecComm == InitComm /\ [][NextComm]_vars

-----------------------------------------------------------------------------
(* Vocabulary of the properties: the syntax of a range specification,      *)
(* stated on the characters of the input and not through the parsers.      *)

Called(r) == r.tag # "NotCalled"

\* One or more decimal digits.
IsNumber(s) == Len(s) > 0 /\ AllDigits(s)

\* str(n) of a positive integer n that fits in usize: no leading zero.
IsPositiveDecimal(s) == IsNumber(s) /\ s[1] # "0" /\ FitsUsize(s)

DashCount(t) == Cardinality({i \in 1..Len(t) : t[i] = "-"})

DashAt(t) == CHOOSE i \in 1..Len(t) : t[i] = "-"

\* The sides of a token with exactly one dash.
Lhs(t) == SubSeq(t, 1, DashAt(t) - 1)

Rhs(t) == SubSeq(t, DashAt(t) + 1, Len(t))

\* A well-formed range token: number, dash, number.
IsRangeTok(t) == DashCount(t) = 1 /\ IsNumber(Lhs(t)) /\ IsNumber(Rhs(t))

\* The tokens a range specification may consist of.
ValidToken(t) ==
    \/ IsNumber(t) /\ DecValue(t) > 0
    \/ IsRangeTok(t) /\ DecValue(Lhs(t)) > 0 /\ DecValue(Lhs(t)) < DecValue(Rhs(t))

Toks == Split(range, ",")

HasInvalid == LET ts == Toks IN \E i \in 1..Len(ts) : ~ValidToken(ts[i])

LeftmostInvalid ==
    LET ts == Toks
    IN  CHOOSE i \in 1..Len(ts) :
            ~ValidToken(ts[i]) /\ \A j \in 1..(i - 1) : ValidToken(ts[j])

\* The leftmost invalid token of the specification (when HasInvalid).
BadTok == LET ts == Toks IN ts[LeftmostInvalid]

-----------------------------------------------------------------------------
\* C1: for every positive integer n that fits in usize, parse_pos applied to
\* the decimal digits of n succeeds and returns exactly the list [n-1, n),
\* in both implementations.
C1_SingleNumber ==
    IsPositiveDecimal(range) =>
        LET n == DecValue(range)
        IN  /\ Called(result) => result = Ok(<<Range(n - 1, n)>>)
            /\ Called(result_my) => result_my = Ok(<<Range(n - 1, n)>>)

C1_Witness ==
    /\ IsPositiveDecimal(range) /\ Len(range) >= 2
    /\ result.tag = "Ok" /\ result_my.tag = "Ok"

\* C2: for all positive n1 < n2, parse_pos applied to "n1-n2" succeeds and
\* returns exactly the list [n1-1, n2), in both implementations.
C2_RangeToken ==
    (/\ DashCount(range) = 1
     /\ IsPositiveDecimal(Lhs(range)) /\ IsPositiveDecimal(Rhs(range))
     /\ DecValue(Lhs(range)) < DecValue(Rhs(range))) =>
        LET n1 == DecValue(Lhs(range))
            n2 == DecValue(Rhs(range))
        IN  /\ Called(result) => result = Ok(<<Range(n1 - 1, n2)>>)
            /\ Called(result_my) => result_my = Ok(<<Range(n1 - 1, n2)>>)

C2_Witness ==
    /\ DashCount(range) = 1
    /\ IsPositiveDecimal(Lhs(range)) /\ IsPositiveDecimal(Rhs(range))
    /\ DecValue(Rhs(range)) - DecValue(Lhs(range)) >= 2
    /\ result.tag = "Ok" /\ result_my.tag = "Ok"

\* C3: for all positive n1 >= n2, parse_pos applied to "n1-n2" fails with
\* "First number in range (n1) must be lower than second number (n2)",
\* n1 and n2 being the 1-indexed numbers as typed, in both implementations.
C3_FirstNumberMessage ==
    (/\ DashCount(range) = 1
     /\ IsPositiveDecimal(Lhs(range)) /\ IsPositiveDecimal(Rhs(range))
     /\ DecValue(Lhs(range)) >= DecValue(Rhs(range))) =>
        LET msg == FirstNumberMsg(Lhs(range), Rhs(range))
        IN  /\ Called(result) => result = Err(msg)
            /\ Called(result_my) => result_my = Err(msg)

C3_Witness ==
    /\ DashCount(range) = 1
    /\ IsPositiveDecimal(Lhs(range)) /\ IsPositiveDecimal(Rhs(range))
    /\ DecValue(Lhs(range)) > DecValue(Rhs(range))
    /\ Len(Lhs(range)) >= 2
    /\ result.tag = "Err" /\ result_my.tag = "Err"

\* The interval a valid token denotes.
TokenInterval(t) ==
    IF IsNumber(t) THEN Range(DecValue(t) - 1, DecValue(t))
    ELSE Range(DecValue(Lhs(t)) - 1, DecValue(Rhs(t)))

CommaCount == Cardinality({i \in 1..Len(range) : range[i] = ","})

\* C4: when parse_pos (mylib_2.rs) succeeds, the list has exactly one
\* interval per comma-separated token and the i-th interval is the one of
\* the i-th token: never sorted, merged or de-duplicated.
C4_OrderPreserved ==
    result.tag = "Ok" =>
        /\ Len(result.val) = CommaCount + 1
        /\ \A i \in 1..Len(result.val) : result.val[i] = TokenInterval(Toks[i])
        /\ range = <<"3", ",", "1", ",", "3">> =>
               result.val = <<Range(2, 3), Range(0, 1), Range(2, 3)>>

C4_Witness ==
    /\ result.tag = "Ok"
    /\ Len(result.val) = 3
    /\ result.val[1] = result.val[3]
    /\ result.val[2].start < result.val[1].start

\* C5 as claimed: parse_pos applied to the empty string fails with the
\* literal message "Range cannot be empty!" (in both implementations).
C5_Original ==
    range = <<>> =>
        /\ Called(result) => result = Err(RangeEmptyMsg)
        /\ Called(result_my) => result_my = Err(RangeEmptyMsg)

\* C5 as amended: parse_pos applied to the empty string fails; the message
\* is "Range cannot be empty!" in mylib.rs and illegal list value: "" (the
\* empty token) in mylib_2.rs.
C5_EmptyRange ==
    range = <<>> =>
        /\ Called(result) => result = Err(IllegalListValue(<<>>))
        /\ Called(result_my) => result_my = Err(RangeEmptyMsg)

C5_Witness ==
    /\ range = <<>>
    /\ result.tag = "Err" /\ result_my.tag = "Err"

\* A bare zero, or a well-formed range with a zero on either side.
ZeroTok(t) ==
    \/ IsNumber(t) /\ DecValue(t) = 0
    \/ IsRangeTok(t) /\ (DecValue(Lhs(t)) = 0 \/ DecValue(Rhs(t)) = 0)

\* The zero of a ZeroTok as typed: the token, or its first zero side.
ZeroAsTyped(t) ==
    IF IsNumber(t) THEN t
    ELSE IF DecValue(Lhs(t)) = 0 THEN Lhs(t) ELSE Rhs(t)

\* C6 as claimed: a bare zero, or a well-formed range token with a zero on
\* either side, makes parse_pos fail with exactly illegal list value: "0".
C6_Original ==
    HasInvalid =>
        LET bad == BadTok
        IN  ZeroTok(bad) =>
                /\ Called(result) => result = Err(IllegalListValue(<<"0">>))
                /\ Called(result_my) => result_my = Err(IllegalListValue(<<"0">>))

\* C6 as amended: such a token makes parse_pos fail with illegal list value
\* naming the zero and never the whole range token; mylib.rs names "0",
\* mylib_2.rs names the zero as typed ("0", or "00" for "00" and "00-1").
C6_ZeroNamed ==
    HasInvalid =>
        LET bad == BadTok
        IN  ZeroTok(bad) =>
                /\ Called(result) => result = Err(IllegalListValue(ZeroAsTyped(bad)))
                /\ Called(result_my) => result_my = Err(IllegalListValue(<<"0">>))

C6_Witness ==
    /\ HasInvalid /\ ZeroTok(BadTok) /\ IsRangeTok(BadTok)
    /\ DecValue(Lhs(BadTok)) # 0
    /\ result.tag = "Err" /\ result_my.tag = "Err"

\* C7: a token that contains a '+' makes parse_pos (mylib_2.rs) fail with
\* illegal list value naming the entire token as typed (the token being the
\* leftmost invalid one); a '+' is never accepted as a sign.
C7_PlusRejected ==
    Called(result) =>
        /\ (\E i \in 1..Len(Toks) : Contains(Toks[i], "+")) => result.tag = "Err"
        /\ HasInvalid =>
               LET bad == BadTok
               IN  Contains(bad, "+") => result = Err(IllegalListValue(bad))

C7_Witness ==
    /\ HasInvalid
    /\ BadTok \in {<<"+", "1">>, <<"+", "1", "-", "2">>, <<"1", "-", "+", "2">>}
    /\ result.tag = "Err"

\* A token without a dash that is not a number.
NonNumericBare(t) == Len(t) > 0 /\ DashCount(t) = 0 /\ ~AllDigits(t)

\* A start-end token with a side that is not a number.
NonNumericSide(t) ==
    /\ DashCount(t) = 1
    /\ Len(Lhs(t)) > 0 /\ Len(Rhs(t)) > 0
    /\ ~AllDigits(Lhs(t)) \/ ~AllDigits(Rhs(t))

\* A side of the token is a number of value zero.
HasZeroSide(t) ==
    \/ IsNumber(Lhs(t)) /\ DecValue(Lhs(t)) = 0
    \/ IsNumber(Rhs(t)) /\ DecValue(Rhs(t)) = 0

\* C8: a bare non-numeric token and a range token with a non-numeric side
\* both fail with illegal list value naming the token, in both
\* implementations.  A side is non-numeric when str::parse takes some char
\* of it for no digit.
C8_Original ==
    HasInvalid =>
        LET bad == BadTok
        IN  (NonNumericBare(bad) \/ NonNumericSide(bad)) =>
                /\ Called(result) => result = Err(IllegalListValue(bad))
                /\ Called(result_my) => result_my = Err(IllegalListValue(bad))

\* One dash, at the end, with something before it.
TrailingDash(t) == DashCount(t) = 1 /\ Len(t) >= 2 /\ t[Len(t)] = "-"

\* An empty token between commas, a lone dash, a trailing dash, several dashes.
Malformed(t) ==
    \/ t = <<>> /\ Contains(range, ",")
    \/ t = <<"-">>
    \/ TrailingDash(t)
    \/ DashCount(t) > 1

\* C9 as claimed: every structurally malformed token makes parse_pos fail
\* with illegal list value naming that token, in both implementations.
C9_Original ==
    HasInvalid =>
        LET bad == BadTok
        IN  Malformed(bad) =>
                /\ Called(result) => result = Err(IllegalListValue(bad))
                /\ Called(result_my) => result_my = Err(IllegalListValue(bad))

\* C9 as amended: as claimed in mylib_2.rs; in mylib.rs a token with more
\* than one dash fails with "Too many list elements", a zero before a
\* trailing dash ("0-") fails with illegal list value: "0", and the other
\* malformed tokens fail as claimed.
C9_Malformed ==
    HasInvalid =>
        LET bad == BadTok
        IN  Malformed(bad) =>
                /\ Called(result) => result = Err(IllegalListValue(bad))
                /\ Called(result_my) =>
                       result_my = IF DashCount(bad) > 1 THEN Err(TooManyMsg)
                                   ELSE IF TrailingDash(bad) /\ HasZeroSide(bad)
                                        THEN Err(IllegalListValue(<<"0">>))
                                        ELSE Err(IllegalListValue(bad))

C9_Witness ==
    /\ HasInvalid /\ DashCount(BadTok) > 1 /\ LeftmostInvalid > 1
    /\ result.tag = "Err" /\ result_my.tag = "Err"

\* The specification up to and including its leftmost invalid token.
RECURSIVE JoinToks(_)
JoinToks(ts) ==
    IF Len(ts) = 1 THEN ts[1]
    ELSE ts[1] \o <<",">> \o JoinToks(Tail(ts))

\* C10: parse_pos (mylib_2.rs) is fail-fast and all-or-nothing: with an
\* invalid token the call returns an error and no PositionList, and the
\* error is the one of the leftmost invalid token, whatever is to its right.
C10_FailFast ==
    (Called(result) /\ HasInvalid) =>
        LET ts == Toks
            leftmost == LeftmostInvalid
        IN  /\ result.tag = "Err"
            /\ result.val = <<>>
            /\ result.err = parse_pos_val(ts[leftmost]).err
            /\ result = parse_pos(JoinToks(SubSeq(ts, 1, leftmost)))

C10_Witness ==
    /\ HasInvalid
    /\ LeftmostInvalid > 1
    /\ LeftmostInvalid < Len(Toks)
    /\ ~ValidToken(Toks[Len(Toks)])
    /\ Toks[Len(Toks)] # BadTok
    /\ result.tag = "Err"

\* A valid token with the leading zeros of its numbers removed.
CanonicalToken(t) ==
    IF IsNumber(t) THEN StripZeros(t)
    ELSE StripZeros(Lhs(t)) \o <<"-">> \o StripZeros(Rhs(t))

\* A valid specification with the leading zeros of all its numbers removed.
CanonicalRange == JoinToks([i \in 1..Len(Toks) |-> CanonicalToken(Toks[i])])

\* C11: leading zeros are insignificant: a valid specification and the same
\* specification without the leading zeros of its numbers give the same
\* PositionList (parse_pos of mylib_2.rs).
C11_LeadingZeros ==
    (Called(result) /\ ~HasInvalid) =>
        /\ result.tag = "Ok"
        /\ result = parse_pos(CanonicalRange)

C11_Witness ==
    /\ ~HasInvalid
    /\ \E i \in 1..Len(Toks) :
           /\ IsRangeTok(Toks[i])
           /\ StartsWith(Lhs(Toks[i]), "0")
           /\ StartsWith(Rhs(Toks[i]), "0")
    /\ result.tag = "Ok"

\* 0 <= start < end for every interval of the list.
ProperIntervals(list) ==
    \A i \in 1..Len(list) : 0 <= list[i].start /\ list[i].start < list[i].end

\* C12: every interval of every PositionList parse_pos returns satisfies
\* 0 <= start < end, in both implementations.
C12_IntervalsProper ==
    /\ result.tag = "Ok" => ProperIntervals(result.val)
    /\ result_my.tag = "Ok" => ProperIntervals(result_my.val)

C12_Witness ==
    /\ result.tag = "Ok" /\ result_my.tag = "Ok"
    /\ Len(result.val) >= 2
    /\ \E i \in 1..Len(Toks) : IsRangeTok(Toks[i])

-----------------------------------------------------------------------------
(* Vocabulary of the extractor properties: what an interval selects, stated *)
(* index by index.                                                          *)

Max(a, b) == IF a > b THEN a ELSE b

\* The units (bytes, chars or fields) of seq at the zero-based indices
\* start .. min(end, length) - 1.
ClippedUnits(seq, r) ==
    [k \in 1..Max(0, Min(r.end, Len(seq)) - r.start) |-> seq[r.start + k]]

\* The clipped units of every interval, interval after interval.
RECURSIVE ClippedSelection(_, _)
ClippedSelection(seq, pos) ==
    IF Len(pos) = 0 THEN <<>>
    ELSE ClippedUnits(seq, pos[1]) \o ClippedSelection(seq, Tail(pos))

\* The interval lies inside a sequence of n units.
Inside(r, n) == r.start <= r.end /\ r.end <= n

\* The number of intervals of the list that contain the zero-based index i.
Covering(pos, i) == Cardinality({j \in 1..Len(pos) : pos[j].start <= i /\ i < pos[j].end})

\* The number of places of seq that hold x.
Occurrences(seq, x) == Cardinality({j \in 1..Len(seq) : seq[j] = x})

Distinct(seq) == \A i, j \in 1..Len(seq) : i # j => seq[i] # seq[j]

\* C13: extract_bytes clips each interval to the line's length: an
\* interval [start, end) contributes the bytes start .. min(end, len), also
\* when it starts inside the line and ends past it.
C13_BytesClipped ==
    (extract.mode = "Bytes" /\ output.tag = "Returned") =>
        output.val = FromUtf8Lossy(ClippedSelection(AsBytes(line), extract.pos))

\* C14: extract_chars returns, interval after interval, the chars of the
\* line at the char indices start .. min(end, number of chars); an interval
\* past the end contributes nothing.
C14_CharsSelected ==
    (extract.mode = "Chars" /\ output.tag = "Returned") =>
        output.val = ClippedSelection(line, extract.pos)

C14_Witness ==
    /\ extract.mode = "Chars" /\ output.tag = "Returned"
    /\ Len(extract.pos) = 2
    /\ extract.pos[1] = Range(0, 1)
    /\ extract.pos[2].start >= Len(line) /\ extract.pos[2].start < extract.pos[2].end
    /\ output.val = <<225>>

\* C15: extract_fields returns, interval after interval, the fields whose
\* zero-based index lies in [start, end), in record order; a field no
\* interval covers is absent and a field k intervals cover appears k times.
C15_FieldsSelected ==
    (extract.mode = "Fields" /\ output.tag = "Returned") =>
        /\ output.val = ClippedSelection(record, extract.pos)
        /\ Distinct(record) =>
               \A i \in 1..Len(record) :
                   Occurrences(output.val, record[i]) = Covering(extract.pos, i - 1)

C15_Witness ==
    /\ extract.mode = "Fields" /\ output.tag = "Returned"
    /\ Distinct(record) /\ Len(record) = 2
    /\ Covering(extract.pos, 0) = 0
    /\ Covering(extract.pos, 1) = 2

\* The bytes of the intervals that lie inside the line, slice after slice;
\* an interval that is reversed or reaches past the end selects nothing.
RECURSIVE SlicesInside(_, _)
SlicesInside(bytes, pos) ==
    IF Len(pos) = 0 THEN <<>>
    ELSE (IF Inside(pos[1], Len(bytes)) THEN ClippedUnits(bytes, pos[1]) ELSE <<>>)
         \o SlicesInside(bytes, Tail(pos))

\* C16: extract_bytes decodes once, after concatenation: the result is the
\* lossy decoding of the concatenated slices; a cut two-byte char gives the
\* replacement char, a selection on the boundary gives the char, and two
\* intervals that supply its bytes in order give the intact char.
C16_DecodedOnce ==
    (extract.mode = "Bytes" /\ output.tag = "Returned") =>
        /\ output.val = FromUtf8Lossy(SlicesInside(AsBytes(line), extract.pos))
        /\ (Len(line) > 0 /\ line[1] = 225) =>
               /\ extract.pos = <<Range(0, 1)>> => output.val = <<ReplacementChar>>
               /\ extract.pos = <<Range(0, 2)>> => output.val = <<225>>
               /\ extract.pos = <<Range(0, 1), Range(1, 2)>> => output.val = <<225>>

C16_Witness ==
    /\ extract.mode = "Bytes" /\ output.tag = "Returned"
    /\ Len(line) > 0 /\ line[1] = 225
    /\ extract.pos = <<Range(0, 1), Range(1, 2)>>
    /\ output.val = <<225>>

\* The extractor of the mode (chars or fields), as a function of the list.
ExtractWith(pos) ==
    IF extract.mode = "Chars" THEN extract_chars(line, pos)
    ELSE extract_fields(record, pos)

\* C17: interval order alone determines output order and multiplicity: for
\* extract_chars and extract_fields the extraction with P ++ Q is the
\* extraction with P followed by the one with Q; a repeated interval repeats
\* its output and [1..2, 0..1] swaps the first two units.
C17_Concatenation ==
    (extract.mode \in {"Chars", "Fields"} /\ output.tag = "Returned") =>
        /\ \A k \in 0..Len(extract.pos) :
               output.val = ExtractWith(SubSeq(extract.pos, 1, k))
                            \o ExtractWith(SubSeq(extract.pos, k + 1, Len(extract.pos)))
        /\ (Len(extract.pos) = 2 /\ extract.pos[1] = extract.pos[2]) =>
               output.val = ExtractWith(<<extract.pos[1]>>) \o ExtractWith(<<extract.pos[1]>>)
        /\ (extract.pos = <<Range(1, 2), Range(0, 1)>> /\ Len(Input) >= 2) =>
               output.val = <<Input[2], Input[1]>>

C17_Witness ==
    /\ extract.mode = "Chars" /\ output.tag = "Returned"
    /\ extract.pos = <<Range(1, 2), Range(0, 1)>>
    /\ Len(line) >= 2 /\ line[1] # line[2]
    /\ output.val = <<line[2], line[1]>>

\* C18: the three extractors are total: for every input, the empty one too,
\* and every list of intervals, also intervals past the end of the input and
\* intervals with start >= end, the call has a value (a string, a list of
\* fields) and no call ends in a panic.
C18_Total ==
    /\ output.tag \in {"None", "Returned"}
    /\ extract.mode = "Bytes" =>
           extract_bytes(line, extract.pos) \in Seq(LineChars \cup {ReplacementChar})
    /\ extract.mode = "Chars" =>
           extract_chars(line, extract.pos) \in Seq(LineChars)
    /\ extract.mode = "Fields" =>
           extract_fields(record, extract.pos) \in Seq(FieldValues)

C18_Witness ==
    /\ extract.mode = "Bytes" /\ output.tag = "Returned"
    /\ Len(extract.pos) = 2
    /\ extract.pos[1].start > extract.pos[1].end
    /\ extract.pos[2].start < extract.pos[2].end
    /\ extract.pos[2].start < Len(AsBytes(line))
    /\ extract.pos[2].end > Len(AsBytes(line))

-----------------------------------------------------------------------------
\* C20: get_start_index(take, total), for every total >= 0 and in both
\* implementations: None when total = 0, for TakeNum(0) and for TakeNum(n)
\* with n > total; Some(0) for PlusZero with total > 0; Some(n - 1) for
\* TakeNum(n) with 1 <= n <= total; Some(max(total + n, 0)) for n < 0.
ExpectedStartIndex ==
    LET n == take_val.num
    IN  IF total = 0 THEN None
        ELSE IF take_val.kind = "PlusZero" THEN Some(0)
        ELSE IF n = 0 \/ n > total THEN None
        ELSE IF n >= 1 THEN Some(n - 1)
        ELSE Some(Max(total + n, 0))

C20_StartIndex ==
    /\ start_index # NotComputed => start_index = ExpectedStartIndex
    /\ start_index_my # NotComputed => start_index_my = ExpectedStartIndex

C20_Witness ==
    /\ take_val.kind = "TakeNum" /\ take_val.num < 0
    /\ total + take_val.num < 0 /\ total > 0
    /\ start_index = Some(0) /\ start_index_my = Some(0)

-----------------------------------------------------------------------------
(* Vocabulary of the properties of parse_num, stated on the characters of  *)
(* the string                                                               *)

NumCalled(r) == r.tag # "NotCalled"

\* The string without its sign.
Unsigned(val) ==
    IF StartsWith(val, "+") \/ StartsWith(val, "-") THEN Tail(val) ELSE val

\* An optional sign and one or more decimal digits.
IsSignedDecimal(val) == IsNumber(Unsigned(val))

\* k <= limit, both without leading zeros.
AtMost(k, limit) ==
    \/ Len(k) < Len(limit)
    \/ Len(k) = Len(limit) /\ DigitsLeq(k, limit)

\* What the claim has parse_num return.
NumExpected(val) ==
    IF ~IsSignedDecimal(val) THEN NumErr(val)
    ELSE LET k == Magnitude(Unsigned(val))
         IN  IF StartsWith(val, "+")
             THEN IF ~AtMost(k, I64MaxDigits) THEN NumErr(val)
                  ELSE IF k = <<"0">> THEN NumOk(PlusZero)
                  ELSE NumOk(TakeNum(I64(FALSE, k)))
             ELSE IF ~AtMost(k, I64MinDigits) THEN NumErr(val)
                  ELSE NumOk(TakeNum(I64(k # <<"0">>, k)))

\* C21: parse_num maps an unsigned or '-'-prefixed digit string of value k
\* to TakeNum(-k), a '+'-prefixed one to TakeNum(+k), a '+'-prefixed zero to
\* PlusZero and an unsigned or '-'-prefixed zero to TakeNum(0); it accepts
\* exactly the values that fit in i64 with the sign applied, and fails on
\* every other string with the string itself as the message; in lib.rs and
\* in mylib_2.rs.
C21_ParseNum ==
    /\ NumCalled(num_result) => num_result = NumExpected(num_val)
    /\ NumCalled(num_result_my) => num_result_my = NumExpected(num_val)

C21_Witness ==
    /\ num_val = <<"-">> \o I64MinDigits
    /\ num_result = NumOk(TakeNum(I64(TRUE, I64MinDigits)))
    /\ num_result_my = NumOk(TakeNum(I64(TRUE, I64MinDigits)))

-----------------------------------------------------------------------------
(* Properties of format_month *)

\* The column of the first of the month.
FirstColumn == NumDaysFromSunday(Date(year, month, 1))

\* Where the claim places day d: row and column of the grid, both from 0.
RowOfDay(d) == (FirstColumn + d - 1) \div 7

ColumnOfDay(d) == (FirstColumn + d - 1) % 7

BlankRow(w) == \A c \in 0..6 : cal[w][c] = 0

\* C22: format_month returns 8 lines (month header, weekday header, six
\* week rows); day 1 is in the first week row in the column of its weekday,
\* each following day in the next column, a new row starting at every
\* Sunday, so that only trailing rows are blank.
C22_FormatMonth ==
    calendar # <<>> =>
        /\ Len(calendar) = 8
        /\ calendar[2] = WeekdayHeader \o Spaces(2)
        /\ \A d \in 1..DaysInMonth(year, month) :
               /\ cal[RowOfDay(d)][ColumnOfDay(d)] = d
               /\ (today.year # year \/ today.month # month) =>
                      SubSeq(calendar[3 + RowOfDay(d)],
                             3 * ColumnOfDay(d) + 1, 3 * ColumnOfDay(d) + 2)
                          = Right2(ToDec(d))
        /\ \A w \in 0..4 : BlankRow(w) => BlankRow(w + 1)

-----------------------------------------------------------------------------
(* Properties of wcr *)

IsAscii(t) == \A i \in 1..Len(t) : t[i] < 128

\* C23: count returns num_chars equal to the number of characters of the
\* whole input, line terminators included, so that for ASCII input
\* num_chars = num_bytes.
C23_CountChars ==
    fileinfo # NotCounted =>
        /\ fileinfo.num_chars = Len(text)
        /\ IsAscii(text) => fileinfo.num_chars = fileinfo.num_bytes

\* The files the loop of run has opened so far.
Opened == {i \in 1..file_index : files[i].ok}

RECURSIVE SumOver(_, _)
SumOver(is, counter) ==
    IF is = {} THEN 0
    ELSE LET i == CHOOSE k \in is : TRUE
         IN  count(files[i].text)[counter] + SumOver(is \ {i}, counter)

\* C28: after any number of files each of the four counters of total is
\* the sum of that counter over the files opened so far.
C28_Totals ==
    \A counter \in {"num_lines", "num_words", "num_bytes", "num_chars"} :
        wc_total[counter] = SumOver(Opened, counter)

-----------------------------------------------------------------------------
(* Properties of the two implementations of parse_pos together *)

\* C25: the parse_pos of mylib.rs and the parse_pos of mylib_2.rs accept
\* exactly the same range specifications and return the same PositionList
\* on every one they accept.
C25_SameAccepted ==
    (Called(result) /\ Called(result_my)) =>
        /\ result.tag = result_my.tag
        /\ result.tag = "Ok" => result.val = result_my.val

C25_Witness ==
    /\ result.tag = "Ok" /\ result_my.tag = "Ok"
    /\ Len(result.val) >= 2
    /\ \E i \in 1..Len(result.val) : result.val[i].end - result.val[i].start >= 2

-----------------------------------------------------------------------------
(* C24, C26: one invocation of cutr *)

RECURSIVE CountOf(_, _)
CountOf(s, c) ==
    IF Len(s) = 0 THEN 0 ELSE (IF s[1] = c THEN 1 ELSE 0) + CountOf(Tail(s), c)

\* C24: in one invocation of cutr parse_pos is called only by get_args, at
\* most once and before any line is read; every line and record of every
\* file is extracted with the PositionList get_args returned; when get_args
\* fails no line is read and nothing is printed.
C24_ParsedOnce ==
    /\ [][parse_calls' # parse_calls
              => cut_pc = "args" /\ lines_read = 0 /\ parse_calls = 0]_vars
    /\ [](\A pos \in used : cut_config.tag = "Ok" /\ pos = cut_config.val.extract.pos)
    /\ [](cut_config.tag = "Err" => lines_read = 0 /\ stdout = <<>> /\ used = {})

\* Two files were read to their end, a line of each was extracted, and the
\* range was parsed once.
C24_Witness ==
    /\ cut_pc = "done"
    /\ cut_index = 2
    /\ cut_files[1].ok /\ cut_files[2].ok
    /\ Len(cut_files[1].text) > 0 /\ Len(cut_files[2].text) > 0
    /\ lines_read >= 2
    /\ parse_calls = 1
    /\ Cardinality(used) = 1

\* C26: in the Bytes and Chars arms as many lines are printed as were read,
\* and the "\n" of the line is not among what was extracted.
C26_NoTerminator ==
    (cut_config.tag = "Ok" /\ cut_config.val.extract.mode \in {"Bytes", "Chars"})
        => /\ CountOf(stdout, LF) = lines_read
           /\ CountOf(cut_result, LF) = 0

-----------------------------------------------------------------------------
(* C27: print_lines of tailr *)

\* The lines from number a to number b, in file order.
LinesFromTo(a, b) == [i \in 1..(b + 1 - a) |-> a + i - 1]

\* What tail prints of a file of t lines: TakeNum(-k) is "-n k" and "-n -k",
\* TakeNum(k) is "-n +k", PlusZero is "-n +0".
TailOf(take, t) ==
    IF take.kind = "PlusZero" THEN LinesFromTo(1, t)
    ELSE IF take.num < 0 THEN LinesFromTo(t - Min(0 - take.num, t) + 1, t)
    ELSE IF take.num >= 1 /\ take.num <= t THEN LinesFromTo(take.num, t)
    ELSE <<>>

\* C27: print_lines prints the last min(k, total) lines for TakeNum(-k), the
\* lines k..total for TakeNum(k) with 1 <= k <= total, every line for
\* PlusZero, and nothing for TakeNum(0), an empty file or k > total; at no
\* point is a line printed twice or out of file order.
C27_PrintLines ==
    /\ \A i, j \in 1..Len(printed) : i < j => printed[i] < printed[j]
    /\ print_pc = "done" => printed = TailOf(num_lines, total_lines)

\* print_lines has returned after printing the last two of more lines.
C27_Witness ==
    /\ print_pc = "done"
    /\ num_lines = TakeNum(-2)
    /\ total_lines > 2
    /\ printed = <<total_lines - 1, total_lines>>

-----------------------------------------------------------------------------
(* C29, C30: the merge loop of commr *)

\* The lines not yet consumed: the pending ones and those not yet read.
Unconsumed ==
    Len(file1_lines) + Len(file2_lines)
        + (IF line1.some THEN 1 ELSE 0) + (IF line2.some THEN 1 ELSE 0)

\* The numbers of the lines of a file that the rows consumed, in row order.
RECURSIVE ConsumedOf(_, _)
ConsumedOf(rows_placed, f) ==
    IF Len(rows_placed) = 0 THEN <<>>
    ELSE LET n == IF f = 1 THEN rows_placed[1].from1 ELSE rows_placed[1].from2
         IN  (IF n = 0 THEN <<>> ELSE <<n>>) \o ConsumedOf(Tail(rows_placed), f)

\* C29: the merge loop terminates: every iteration consumes one or two of
\* the finitely many lines, some iteration or the break is possible while
\* the loop runs, the loop is left only when no line is pending or unread,
\* and then every line of each file was consumed once, in file order.
C29_Terminates ==
    /\ [][comm_pc = "loop" /\ comm_pc' = "loop"
              => Unconsumed' < Unconsumed /\ Unconsumed' >= Unconsumed - 2]_vars
    /\ [](comm_pc = "loop" => ENABLED NextComm)
    /\ [](comm_pc = "loop" /\ Unconsumed = 0 => ENABLED CommBreak)
    /\ [](comm_pc = "print"
              => /\ Unconsumed = 0
                 /\ ConsumedOf(placed, 1) = [i \in 1..Len(comm_files[1]) |-> i]
                 /\ ConsumedOf(placed, 2) = [i \in 1..Len(comm_files[2]) |-> i])

\* The loop has ended over two files of two lines after rows of every column.
C29_Witness ==
    /\ comm_pc = "print"
    /\ Len(comm_files[1]) = 2 /\ Len(comm_files[2]) = 2
    /\ \A c \in 1..3 : \E i \in 1..Len(placed) : placed[i].col = c

\* C30: every row holds, in its column, the text of the line of the file it
\* was taken from (of file1 for column 3), as the file has it.
C30_OriginalText ==
    \A i \in 1..Len(cols) :
        cols[i][placed[i].col] =
            IF placed[i].col = 2
            THEN comm_files[2][placed[i].from2]
            ELSE comm_files[1][placed[i].from1]

=============================================================================
